---- MODULE Spec2Model ----
(***************************************************************************)
(* Agent runtime: Tool Registry, Policy Engine, Execution Engine, Skill    *)
(* Runner and Plan Runner.                                                 *)
(*                                                                         *)
(* Strings the program inspects character by character (tool names and     *)
(* enable-list patterns) are sequences of one-character strings.           *)
(* Permission categories are sequences of their dot-separated segments     *)
(* ("filesystem.read" is <<"filesystem", "read">>), file paths are         *)
(* sequences of their slash-separated segments.                            *)
(***************************************************************************)
EXTENDS Integers, Sequences, FiniteSets, TLC

VARIABLES
    config,            \* AgentConfig snapshot shared by every component
    catalogue,         \* the plans a run can be started on
    sessionApprovals,  \* PolicyEngine.sessionApprovals, pairs <<tool, perm>>
    pc,                \* per run: position in PlanRunner.run
    plan,              \* per run: the Plan being executed
    ctx,               \* per run: its ExecutionContext
    planRun,           \* per run: the PlanRun record
    idx,               \* per run: index of the for-loop over plan.steps
    attempt,           \* per run: 0 = first executeStep, k = k-th retry
    result,            \* per run: StepResult of the latest executeStep
    skill,             \* per run: state of the prompt loop of a skill step
    trace,             \* per run: calls made and audit events emitted, in order
    reg,               \* ToolRegistry.execute called on its own
    files,             \* the files of the machine
    rollback,          \* the RollbackTracker of the ExecutionEngine
    audit,             \* per run: its AuditLogger and the files it wrote
    query,             \* a component called on its own: the call and its result
    daemon,            \* the daemon process: cron jobs, watchers, signals
    lifecycle,         \* SkillLifecycle: loaded skills and their manifest files
    proposals,         \* PlanProposer: proposal.json per run id, and the calls
    bus                \* auditEmitter: its listeners and what it emitted

vars == <<config, catalogue, sessionApprovals, pc, plan, ctx, planRun, idx, attempt,
          result, skill, trace, reg, files, rollback, audit, query, daemon,
          lifecycle, proposals, bus>>

\* ------------------------------------------------------------------------
\* Bounds
\* ------------------------------------------------------------------------
NumRuns == 2
MaxNameLen == 3
MaxToolRounds == 1
MaxTrackerOps == 6
MaxAuditEntries == 2
MaxWatcherEvents == 2
MaxTransitions == 3
MaxProposalCalls == 4
MaxBusEvents == 4

Runs == 1..NumRuns

\* ------------------------------------------------------------------------
\* Strings
\* ------------------------------------------------------------------------
Range(s) == {s[i] : i \in DOMAIN s}

startsWith(s, prefix) ==
    Len(prefix) <= Len(s) /\ SubSeq(s, 1, Len(prefix)) = prefix

endsWith(s, suffix) ==
    Len(suffix) <= Len(s) /\ SubSeq(s, Len(s) - Len(suffix) + 1, Len(s)) = suffix

\* pattern.slice(0, -1)
sliceDropLast(s) == IF Len(s) = 0 THEN s ELSE SubSeq(s, 1, Len(s) - 1)

\* ------------------------------------------------------------------------
\* Tool names and permission categories
\* ------------------------------------------------------------------------
FsRead   == <<"f", "s", ".", "r">>
FsWrite  == <<"f", "s", ".", "w">>
CmdRun   == <<"c", "m", "d", ".", "r", "u", "n">>
Vault    == <<"v", ".", "x">>
Locker   == <<"l", ".", "x">>
Ghost    == <<"g", ".", "x">>

PermFsRead  == <<"filesystem", "read">>
PermFsWrite == <<"filesystem", "write">>
PermFs      == <<"filesystem">>
PermExec    == <<"exec">>
PermSecrets == <<"secrets">>

\* ToolRegistry.tools after start-up: the core tools, and two plugin tools
\* that require more than one permission.
CoreTools ==
    (FsRead  :> [permissions |-> <<PermFsRead>>]) @@
    (FsWrite :> [permissions |-> <<PermFsWrite>>]) @@
    (CmdRun  :> [permissions |-> <<PermExec>>]) @@
    (Vault   :> [permissions |-> <<PermExec, PermSecrets>>]) @@
    (Locker  :> [permissions |-> <<PermSecrets, PermExec>>])

\* registry.get(name): the definition, or undefined
has(tools, name) == name \in DOMAIN tools

\* ------------------------------------------------------------------------
\* Tool Registry
\* ------------------------------------------------------------------------
\* Mutant: the pattern loses its dot as well as its star.
matchesPattern_noDot(name, pattern) ==
    \/ pattern = name
    \/ /\ endsWith(pattern, <<".", "*">>)
       /\ startsWith(name, sliceDropLast(sliceDropLast(pattern)))

matchesPattern(name, pattern) ==
    \/ pattern = name
    \/ /\ endsWith(pattern, <<".", "*">>)
       /\ startsWith(name, sliceDropLast(pattern))

isEnabled(name, enabled) ==
    \E i \in DOMAIN enabled : matchesPattern(name, enabled[i])

\* ToolRegistry.execute.  inputValid is the verdict of inputSchema.safeParse,
\* outcome is what the tool's operation does when it is called:
\* "ok", "fail" (a Result with success = false), "throw" or "timeout".
\* invoked tells whether tool.execute was called.
\* Mutant: no race against the deadline; the operation's late result is
\* returned as it is.
execute_noDeadline(tools, name, inputValid, enabled, outcome) ==
    IF ~has(tools, name)
    THEN [success |-> FALSE, error |-> "not_found", invoked |-> FALSE]
    ELSE IF ~inputValid
    THEN [success |-> FALSE, error |-> "invalid_input", invoked |-> FALSE]
    ELSE IF ~isEnabled(name, enabled)
    THEN [success |-> FALSE, error |-> "disabled", invoked |-> FALSE]
    ELSE CASE outcome \in {"ok", "timeout"}
                                  -> [success |-> TRUE,  error |-> "none",       invoked |-> TRUE]
           [] outcome = "fail"    -> [success |-> FALSE, error |-> "tool_error", invoked |-> TRUE]
           [] outcome = "throw"   -> [success |-> FALSE, error |-> "exception",  invoked |-> TRUE]

execute(tools, name, inputValid, enabled, outcome) ==
    IF ~has(tools, name)
    THEN [success |-> FALSE, error |-> "not_found", invoked |-> FALSE]
    ELSE IF ~inputValid
    THEN [success |-> FALSE, error |-> "invalid_input", invoked |-> FALSE]
    ELSE IF ~isEnabled(name, enabled)
    THEN [success |-> FALSE, error |-> "disabled", invoked |-> FALSE]
    ELSE CASE outcome = "ok"      -> [success |-> TRUE,  error |-> "none",       invoked |-> TRUE]
           [] outcome = "fail"    -> [success |-> FALSE, error |-> "tool_error", invoked |-> TRUE]
           [] outcome = "throw"   -> [success |-> FALSE, error |-> "exception",  invoked |-> TRUE]
           [] outcome = "timeout" -> [success |-> FALSE, error |-> "timeout",    invoked |-> TRUE]

Outcomes == {"ok", "fail", "throw", "timeout"}

\* ------------------------------------------------------------------------
\* Policy Engine
\* ------------------------------------------------------------------------
RECURSIVE firstRule(_, _, _)
firstRule(rules, permission, i) ==
    IF i > Len(rules) THEN "none"
    ELSE IF rules[i].permission = permission THEN rules[i].action
    ELSE firstRule(rules, permission, i + 1)

\* Mutant: the parent category is never consulted.
findRule_noParent(cfg, permission) ==
    IF firstRule(cfg.policy.rules, permission, 1) # "none"
    THEN firstRule(cfg.policy.rules, permission, 1)
    ELSE cfg.policy.defaultApproval

findRule(cfg, permission) ==
    LET parentPerm == <<permission[1]>> IN
    IF firstRule(cfg.policy.rules, permission, 1) # "none"
    THEN firstRule(cfg.policy.rules, permission, 1)
    ELSE IF parentPerm # permission
              /\ firstRule(cfg.policy.rules, parentPerm, 1) # "none"
    THEN firstRule(cfg.policy.rules, parentPerm, 1)
    ELSE cfg.policy.defaultApproval

Allowed == [allowed |-> TRUE, requiresApproval |-> FALSE, reason |-> "none"]
Denied  == [allowed |-> FALSE, requiresApproval |-> FALSE, reason |-> "denied_by_policy"]
NeedsApproval ==
    [allowed |-> FALSE, requiresApproval |-> TRUE, reason |-> "requires_approval"]

RECURSIVE checkFrom(_, _, _, _, _)
checkFrom(cfg, approvals, action, c, i) ==
    IF i > Len(action.permissions) THEN Allowed
    ELSE LET perm == action.permissions[i] IN
         IF perm \in c.approvedPermissions \/ <<action.tool, perm>> \in approvals
         THEN checkFrom(cfg, approvals, action, c, i + 1)
         ELSE CASE findRule(cfg, perm) = "allow" ->
                       checkFrom(cfg, approvals, action, c, i + 1)
                [] findRule(cfg, perm) = "deny" -> Denied
                [] findRule(cfg, perm) = "confirm" -> NeedsApproval

\* Mutant: a deny rule is treated like allow.
checkPermission_denyIgnored(cfg, approvals, action, c) ==
    IF checkFrom(cfg, approvals, action, c, 1) = Denied THEN Allowed
    ELSE checkFrom(cfg, approvals, action, c, 1)

\* PolicyEngine.checkPermission
checkPermission(cfg, approvals, action, c) ==
    checkFrom(cfg, approvals, action, c, 1)

\* Mutant: the grant is not cached.
grantSessionApproval_forgets(approvals, action) == approvals

\* PolicyEngine.grantSessionApproval: the approvals set afterwards
grantSessionApproval(approvals, action) ==
    approvals \cup
        {<<action.tool, action.permissions[i]>> : i \in DOMAIN action.permissions}

\* Mutant: without an approval handler the request is granted.
requestApproval_defaultYes(approvals, action, c, reply) ==
    IF c.onApproval /\ ~reply
    THEN [approved |-> FALSE, prompted |-> TRUE,
          approvals |-> approvals, event |-> "approval_denied"]
    ELSE [approved |-> TRUE, prompted |-> c.onApproval,
          approvals |-> grantSessionApproval(approvals, action),
          event |-> IF c.onApproval THEN "approval_granted" ELSE "none"]

\* PolicyEngine.requestApproval.  reply is what ctx.onApproval answers when
\* it is called.  The result tells whether the prompter was called, what is
\* returned, the approvals set afterwards and the audit event emitted.
requestApproval(approvals, action, c, reply) ==
    IF c.autonomous /\ action.riskLevel = "low"
    THEN [approved |-> TRUE, prompted |-> FALSE,
          approvals |-> grantSessionApproval(approvals, action),
          event |-> "none"]
    ELSE IF c.onApproval
    THEN IF reply
         THEN [approved |-> TRUE, prompted |-> TRUE,
               approvals |-> grantSessionApproval(approvals, action),
               event |-> "approval_granted"]
         ELSE [approved |-> FALSE, prompted |-> TRUE,
               approvals |-> approvals,
               event |-> "approval_denied"]
    ELSE [approved |-> FALSE, prompted |-> FALSE,
          approvals |-> approvals, event |-> "none"]

\* The action descriptor the Execution Engine and the Skill Runner build.
ActionOf(tools, name, args) ==
    [tool |-> name, permissions |-> tools[name].permissions,
     args |-> args, riskLevel |-> "medium"]

\* ------------------------------------------------------------------------
\* Scope Checker
\* ------------------------------------------------------------------------
ProjectRoot == <<"home", "proj">>

\* path.normalize on the segments of an absolute path
RECURSIVE normalize(_, _)
normalize(segs, acc) ==
    IF segs = <<>> THEN acc
    ELSE IF Head(segs) \in {"", "."} THEN normalize(Tail(segs), acc)
    ELSE IF Head(segs) = ".."
    THEN normalize(Tail(segs), sliceDropLast(acc))
    ELSE normalize(Tail(segs), Append(acc, Head(segs)))

\* path.resolve(root, filePath); a path whose first segment is "" is absolute
resolve(root, filePath) ==
    IF filePath # <<>> /\ filePath[1] = ""
    THEN normalize(filePath, <<>>)
    ELSE normalize(root \o filePath, <<>>)

RECURSIVE commonPrefix(_, _)
commonPrefix(a, b) ==
    IF a = <<>> \/ b = <<>> \/ Head(a) # Head(b) THEN 0
    ELSE 1 + commonPrefix(Tail(a), Tail(b))

\* path.relative(from, to) for two normalized absolute paths
relative(from, to) ==
    LET k == commonPrefix(from, to) IN
    [i \in 1..(Len(from) - k) |-> ".."] \o SubSeq(to, k + 1, Len(to))

\* relPath.startsWith('..') on the joined string
startsWithDotDot(relSegs) ==
    relSegs # <<>> /\ relSegs[1] \in {"..", "..rc"}

\* ScopeChecker.matchGlob for patterns whose segments are "**", "*" or a
\* plain word, on a normalized relative path.  "**" becomes ".*" and "*"
\* becomes "[^/]*"; between slashes ".*" spans one or more whole segments.
RECURSIVE globRest(_, _)
globRest(segs, pattern) ==
    IF pattern = <<>> THEN segs = <<>>
    ELSE IF segs = <<>> THEN FALSE
    ELSE IF Head(pattern) = "**"
    THEN IF Len(pattern) = 1 THEN TRUE
         ELSE \E k \in 1..Len(segs) :
                  globRest(SubSeq(segs, k + 1, Len(segs)), Tail(pattern))
    ELSE /\ Head(pattern) \in {"*", Head(segs)}
         /\ globRest(Tail(segs), Tail(pattern))

\* new RegExp(`^${regexStr}$`) throws on a pattern with an unclosed bracket
\* or parenthesis
regExpThrows(pattern) == \E i \in DOMAIN pattern : pattern[i] \in {"[", "("}

matchGlob(segs, pattern) ==
    \/ pattern = <<"**", "*">>
    \/ pattern = <<"*">>
    \/ /\ ~regExpThrows(pattern)
       /\ \/ pattern = <<"**">>
          \/ globRest(segs, pattern)

checkFilesystemScope(cfg, filePath) ==
    LET absPath == resolve(ProjectRoot, filePath)
        relPath == relative(ProjectRoot, absPath)
        allowlist == cfg.policy.filesystemAllowlist
    IN  /\ ~startsWithDotDot(relPath)
        /\ Len(allowlist) # 0
        /\ \E i \in DOMAIN allowlist : matchGlob(relPath, allowlist[i])

\* new RegExp(pattern).test(command) for a pattern made of plain words
contains(str, sub) ==
    \E i \in 0..(Len(str) - Len(sub)) : SubSeq(str, i + 1, i + Len(sub)) = sub

checkCommandScope(cfg, command) ==
    LET allowlist == cfg.policy.commandAllowlist IN
    \/ Len(allowlist) = 0
    \/ \E i \in DOMAIN allowlist :
           allowlist[i] = command \/ contains(command, allowlist[i])

\* PolicyEngine.checkScope
checkScope(cfg, toolName, args) ==
    /\ (startsWith(toolName, <<"f", "s", ".">>) /\ args.path # <<>>)
           => checkFilesystemScope(cfg, args.path)
    /\ (toolName = CmdRun /\ args.command # <<>>)
           => checkCommandScope(cfg, args.command)

\* ------------------------------------------------------------------------
\* Configurations, contexts and plans
\* ------------------------------------------------------------------------
Rule(p, a) == [permission |-> p, action |-> a]

\* DEFAULT_CONFIG, with the plugin tools enabled
ConfigDefault ==
    [policy |-> [defaultApproval |-> "confirm",
                 rules |-> << Rule(PermFsRead, "allow"),
                              Rule(PermFsWrite, "confirm"),
                              Rule(PermExec, "confirm"),
                              Rule(PermSecrets, "deny") >>,
                 filesystemAllowlist |-> << <<"**", "*">> >>,
                 commandAllowlist |-> << >>],
     tools |-> [enabled |-> << <<"f", "s", ".", "*">>, CmdRun,
                               <<"v", ".", "*">>, <<"l", ".", "*">> >>]]

\* A project that denies writes, confirms the rest of the filesystem
\* category through its parent rule, and restricts paths and commands.
ConfigStrict ==
    [policy |-> [defaultApproval |-> "deny",
                 rules |-> << Rule(PermFs, "confirm"),
                              Rule(PermFsWrite, "deny"),
                              Rule(PermExec, "allow") >>,
                 filesystemAllowlist |-> << <<"src", "**">> >>,
                 commandAllowlist |-> << <<"npm">> >>],
     tools |-> [enabled |-> << <<"f", "s", ".", "*">>, CmdRun >>]]

Configs == {ConfigDefault, ConfigStrict}

\* ExecutionContext as the callers build it: approvedPermissions is a new
\* empty Set, onApproval is present (CLI) or absent (scheduler, MCP).
Contexts ==
    [onApproval : BOOLEAN, autonomous : BOOLEAN, approvedPermissions : {{}}]

NoArgs     == [valid |-> TRUE,  path |-> <<>>, command |-> <<>>]
ArgsHello  == [valid |-> TRUE,  path |-> <<"src", "hello">>, command |-> <<>>]
ArgsEscape == [valid |-> TRUE,  path |-> <<"..", "etc", "passwd">>, command |-> <<>>]
ArgsBad    == [valid |-> FALSE, path |-> <<>>, command |-> <<>>]
ArgsNpm    == [valid |-> TRUE,  path |-> <<>>, command |-> <<"npm", "test">>]
ArgsRm     == [valid |-> TRUE,  path |-> <<>>, command |-> <<"rm">>]

NoTool == <<>>

\* PlanStep
Step(id, tool, skillName, args, verify, onFailure, retries, dependsOn) ==
    [id |-> id, tool |-> tool, skill |-> skillName, args |-> args,
     verify |-> verify, onFailure |-> onFailure, retries |-> retries,
     dependsOn |-> dependsOn]

\* Skills the SkillLoader has loaded: prompt-driven skills with their
\* declared tool allow-list.
Skills ==
    ("review" :> [tools |-> {FsRead, FsWrite, Ghost}, prompt |-> TRUE,
                  validators |-> TRUE, state |-> "approved"]) @@
    ("loop" :> [tools |-> {Ghost}, prompt |-> TRUE, validators |-> FALSE,
                state |-> "approved"]) @@
    ("deploy" :> [tools |-> {FsWrite, Ghost}, prompt |-> FALSE,
                  validators |-> FALSE, state |-> "approved"]) @@
    ("sketch" :> [tools |-> {}, prompt |-> TRUE, validators |-> FALSE,
                  state |-> "draft"]) @@
    ("triage" :> [tools |-> {FsRead, FsWrite}, prompt |-> TRUE,
                  validators |-> FALSE, state |-> "approved"])

\* Tool calls a workflow may make through its tool executor.
WorkflowCalls ==
    { [name |-> FsWrite, args |-> ArgsHello],
      [name |-> Ghost,   args |-> NoArgs],
      [name |-> CmdRun,  args |-> ArgsNpm],
      [name |-> Vault,   args |-> NoArgs] }

\* Tool calls the language model may ask for.
LLMToolCalls ==
    { [name |-> FsRead,  args |-> ArgsHello],
      [name |-> FsWrite, args |-> ArgsHello],
      [name |-> Ghost,   args |-> NoArgs],
      [name |-> Vault,   args |-> NoArgs],
      [name |-> CmdRun,  args |-> ArgsNpm] }

maxIterations == 20

\* Plans
PlanHappy ==
    << Step("A", FsWrite, "none", ArgsHello, TRUE, "undefined", 0, <<>>) >>

PlanTwice ==
    << Step("A", FsWrite, "none", ArgsHello, FALSE, "skip", 0, <<>>),
       Step("B", FsWrite, "none", ArgsHello, FALSE, "abort", 0, <<"A">>) >>

PlanChain ==
    << Step("A", CmdRun, "none", ArgsNpm, FALSE, "skip", 0, <<>>),
       Step("B", FsRead, "none", ArgsHello, FALSE, "abort", 0, <<"A">>),
       Step("C", FsRead, "none", ArgsHello, FALSE, "abort", 0, <<"B">>) >>

PlanRetry ==
    << Step("A", FsWrite, "none", ArgsHello, TRUE, "retry", 2, <<>>),
       Step("B", FsRead, "none", ArgsBad, FALSE, "retry", 0, <<"A">>) >>

PlanSecrets ==
    << Step("A", Vault, "none", NoArgs, FALSE, "skip", 0, <<>>),
       Step("B", Locker, "none", NoArgs, FALSE, "skip", 0, <<>>) >>

PlanScope ==
    << Step("A", FsRead, "none", ArgsEscape, FALSE, "skip", 0, <<>>),
       Step("B", CmdRun, "none", ArgsRm, FALSE, "skip", 0, <<"Z">>),
       Step("C", CmdRun, "none", ArgsRm, FALSE, "undefined", 0, <<>>) >>

PlanSkill ==
    << Step("A", NoTool, "review", NoArgs, FALSE, "skip", 0, <<>>),
       Step("B", NoTool, "missing", NoArgs, FALSE, "skip", 0, <<>>),
       Step("C", NoTool, "none", NoArgs, FALSE, "abort", 0, <<"A">>) >>

PlanLoop ==
    << Step("A", NoTool, "loop", NoArgs, FALSE, "skip", 0, <<>>) >>

PlanWorkflow ==
    << Step("A", NoTool, "deploy", NoArgs, FALSE, "skip", 0, <<>>) >>

PlanTriage ==
    << Step("A", NoTool, "triage", NoArgs, FALSE, "skip", 0, <<>>) >>

\* Plans of the daemon
PlanNightly ==
    << Step("A", FsRead, "none", ArgsHello, FALSE, "skip", 0, <<>>),
       Step("B", FsWrite, "none", ArgsHello, FALSE, "abort", 0, <<"A">>) >>

PlanSketch ==
    << Step("A", NoTool, "sketch", NoArgs, FALSE, "abort", 0, <<>>) >>

PlanOrder ==
    << Step("A", FsRead, "none", ArgsHello, FALSE, "abort", 0, <<"B">>),
       Step("B", Ghost, "none", NoArgs, FALSE, "abort", 0, <<>>),
       Step("C", FsRead, "none", ArgsHello, FALSE, "abort", 0, <<>>) >>

\* A step listed before the step it depends on
PlanLate ==
    << Step("A", FsRead, "none", ArgsHello, FALSE, "skip", 0, <<"B">>),
       Step("B", FsRead, "none", ArgsHello, FALSE, "skip", 0, <<>>) >>

Plans == {PlanHappy, PlanTwice, PlanChain, PlanRetry, PlanSecrets, PlanScope,
          PlanSkill, PlanLoop, PlanWorkflow, PlanOrder, PlanLate, PlanTriage}

\* ------------------------------------------------------------------------
\* Files
\* ------------------------------------------------------------------------
\* The files of the machine: absolute path -> content, "absent" when there
\* is no such file.
HelloPath == resolve(ProjectRoot, ArgsHello.path)
EscapePath == resolve(ProjectRoot, ArgsEscape.path)

\* The files before a run: the one the plans write may not exist yet
InitialFiles ==
    {(HelloPath :> c) @@ (EscapePath :> "old") : c \in {"absent", "old"}}

exists(fsys, p) == p \in DOMAIN fsys /\ fsys[p] # "absent"

\* readFile(p, 'utf-8') in a try whose catch gives ''
readOrEmpty(fsys, p) == IF exists(fsys, p) THEN fsys[p] ELSE ""

writeFile(fsys, p, content) ==
    [q \in DOMAIN fsys \cup {p} |-> IF q = p THEN content ELSE fsys[q]]

\* What the operation of a tool does to the files when its write lands:
\* fs.write writes input.content at path.resolve(ctx.cwd, input.path).
toolEffect(fsys, tool, args, landed) ==
    IF tool = FsWrite /\ landed /\ args.path # <<>>
    THEN writeFile(fsys, resolve(ProjectRoot, args.path), "new")
    ELSE fsys

\* Whether the write of an operation with this outcome can have landed
Landings(outcome) ==
    CASE outcome = "ok" -> {TRUE}
      [] outcome = "timeout" -> BOOLEAN
      [] OTHER -> {FALSE}

\* ------------------------------------------------------------------------
\* Maps that keep insertion order (Map): sequences of [key, value]
\* ------------------------------------------------------------------------
mapHas(m, key) == \E i \in DOMAIN m : m[i].key = key

mapGet(m, key) == m[CHOOSE i \in DOMAIN m : m[i].key = key].value

mapSet(m, key, value) ==
    IF mapHas(m, key)
    THEN [i \in DOMAIN m |-> IF m[i].key = key
                             THEN [key |-> key, value |-> value] ELSE m[i]]
    ELSE Append(m, [key |-> key, value |-> value])

\* ------------------------------------------------------------------------
\* Rollback Tracker
\* ------------------------------------------------------------------------
\* beforeStates: stepId -> (file -> content); diffs; and, for the record,
\* the calls made on the tracker with the content the file really had.
NewTracker == [beforeStates |-> <<>>, diffs |-> <<>>, log |-> <<>>]

Logged(t, op, stepId, file, fsys) ==
    [t EXCEPT !.log = Append(@, [op |-> op, stepId |-> stepId, file |-> file,
                                 actual |-> IF file \in DOMAIN fsys
                                            THEN fsys[file] ELSE "absent"])]

captureBeforeState(t, fsys, stepId, absPath) ==
    LET content == readOrEmpty(fsys, absPath)
        inner == IF mapHas(t.beforeStates, stepId)
                 THEN mapGet(t.beforeStates, stepId) ELSE <<>>
    IN [t EXCEPT !.beforeStates =
            mapSet(@, stepId, mapSet(inner, absPath, content))]

captureAfterState(t, fsys, stepId, absPath) ==
    IF ~mapHas(t.beforeStates, stepId) THEN t
    ELSE LET beforeMap == mapGet(t.beforeStates, stepId)
             before == IF mapHas(beforeMap, absPath)
                       THEN mapGet(beforeMap, absPath) ELSE ""
             after == readOrEmpty(fsys, absPath)
         IN IF before # after
            THEN [t EXCEPT !.diffs =
                     Append(@, [file |-> absPath, before |-> before,
                                after |-> after])]
            ELSE t

\* for (const [filePath, content] of beforeMap) writeFile(filePath, content)
RECURSIVE restore(_, _)
restore(fsys, entries) ==
    IF entries = <<>> THEN fsys
    ELSE restore(writeFile(fsys, Head(entries).key, Head(entries).value),
                 Tail(entries))

\* RollbackTracker.rollbackStep: the files afterwards
rollbackStep(t, fsys, stepId) ==
    IF ~mapHas(t.beforeStates, stepId) THEN fsys
    ELSE restore(fsys, mapGet(t.beforeStates, stepId))

\* RollbackTracker.rollbackAll: the steps in reverse order of first capture
RECURSIVE rollbackFrom(_, _, _)
rollbackFrom(t, fsys, k) ==
    IF k = 0 THEN fsys
    ELSE rollbackFrom(t, rollbackStep(t, fsys, t.beforeStates[k].key), k - 1)

rollbackAll(t, fsys) == rollbackFrom(t, fsys, Len(t.beforeStates))

\* The paths rollbackAll returns: those of each rollbackStep, appended
RECURSIVE restoredFrom(_, _)
restoredFrom(t, k) ==
    IF k = 0 THEN <<>>
    ELSE [i \in DOMAIN t.beforeStates[k].value |->
              t.beforeStates[k].value[i].key] \o restoredFrom(t, k - 1)

allRestored(t) == restoredFrom(t, Len(t.beforeStates))

\* ------------------------------------------------------------------------
\* Secret redaction
\* ------------------------------------------------------------------------
\* A text is a sequence of words.  Two of the words match SECRET_PATTERNS:
\* an API key (sk- and 24 more characters) and the shortest Slack token.
ApiKey == "sk-0123456789abcdefghijklmn"
ShortToken == "xoxb-a"

SecretMatches == {ApiKey, ShortToken}

\* match.substring(0, 4) + '***' + match.substring(match.length - 4)
masked(match) ==
    CASE match = ApiKey -> "sk-0***klmn"
      [] match = ShortToken -> "xoxb***xb-a"

\* The replacer of redactSecrets on one word
redactMatch(word) ==
    IF word \in SecretMatches
    THEN IF Len(word) < 8 THEN word ELSE masked(word)
    ELSE word

redactSecrets(text) == [i \in DOMAIN text |-> redactMatch(text[i])]

\* ------------------------------------------------------------------------
\* Audit Logger
\* ------------------------------------------------------------------------
NewRunLog ==
    [status |-> "running", events |-> <<>>, steps |-> <<>>, diffs |-> <<>>,
     summary |-> [stepsCompleted |-> 0, stepsFailed |-> 0, stepsSkipped |-> 0,
                  filesChanged |-> 0, built |-> FALSE]]

NoFile == [written |-> FALSE, log |-> NewRunLog, bytes |-> <<>>]

\* An AuditLogger after its constructor: the run log, and the two files of
\* its run directory
NewLogger == [runLog |-> NewRunLog, runJson |-> NoFile, diffsJson |-> NoFile]

StepLog(stepId, status, input) ==
    [stepId |-> stepId, status |-> status, input |-> input]

addStep(a, step) == [a EXCEPT !.runLog.steps = Append(@, step)]

\* steps.find((s) => s.stepId === stepId), then Object.assign
updateStep(a, stepId, status) ==
    IF \E i \in DOMAIN a.runLog.steps : a.runLog.steps[i].stepId = stepId
    THEN LET k == CHOOSE i \in DOMAIN a.runLog.steps :
                      /\ a.runLog.steps[i].stepId = stepId
                      /\ \A j \in 1..(i - 1) : a.runLog.steps[j].stepId # stepId
         IN [a EXCEPT !.runLog.steps[k].status = status]
    ELSE a

addDiff(a, diff) == [a EXCEPT !.runLog.diffs = Append(@, diff)]

buildSummary(log) ==
    [stepsCompleted |->
         Cardinality({i \in DOMAIN log.steps : log.steps[i].status = "completed"}),
     stepsFailed |->
         Cardinality({i \in DOMAIN log.steps : log.steps[i].status = "failed"}),
     stepsSkipped |->
         Cardinality({i \in DOMAIN log.steps : log.steps[i].status = "skipped"}),
     filesChanged |-> Cardinality({log.diffs[i].file : i \in DOMAIN log.diffs}),
     built |-> TRUE]

\* JSON.stringify of the diffs: the words of each entry
RECURSIVE diffWords(_)
diffWords(diffs) ==
    IF diffs = <<>> THEN <<>>
    ELSE <<Head(diffs).stepId, Head(diffs).before, Head(diffs).after>>
         \o diffWords(Tail(diffs))

RECURSIVE stepWords(_)
stepWords(steps) ==
    IF steps = <<>> THEN <<>>
    ELSE <<Head(steps).stepId, Head(steps).status, Head(steps).input>>
         \o stepWords(Tail(steps))

\* JSON.stringify(this.runLog)
runLogWords(log) == <<log.status>> \o stepWords(log.steps) \o diffWords(log.diffs)

\* AuditLogger.save
save(a) ==
    [a EXCEPT
        !.runJson = [written |-> TRUE, log |-> a.runLog,
                     bytes |-> redactSecrets(runLogWords(a.runLog))],
        !.diffsJson = IF Len(a.runLog.diffs) > 0
                      THEN [written |-> TRUE, log |-> a.runLog,
                            bytes |-> diffWords(a.runLog.diffs)]
                      ELSE @]

\* AuditLogger.complete
complete(a, status) ==
    save([a EXCEPT !.runLog.status = status,
                   !.runLog.summary = buildSummary([a.runLog EXCEPT !.status = status])])

\* ------------------------------------------------------------------------
\* Verification.  A VerifyConfig says whether it has a command, the exit
\* code it expects (<<>> when it states none), and whether it has a contains
\* and a fileExists; ran is what happens when the checks are made: the
\* command's exit code, whether its output includes the substring and
\* whether the file is there.
\* ------------------------------------------------------------------------
\* execFileAsync rejects when the command exits with a code other than 0
execFileThrows(ran) == ran.exit # 0

\* ExecutionEngine.verify
verify(verifyConfig, ran) ==
    LET commandPassed ==
            IF ~verifyConfig.command THEN TRUE
            ELSE IF execFileThrows(ran) THEN FALSE
            ELSE ~(verifyConfig.contains /\ ~ran.outputIncludes)
        filePassed ==
            IF ~verifyConfig.fileExists THEN TRUE ELSE ran.fileThere
    IN [passed |-> commandPassed /\ filePassed]

\* ------------------------------------------------------------------------
\* Audit Bus: the process's one auditEmitter.  listeners are the runs whose
\* AuditLogger called onAudit, in the order they did; emitted is, for the
\* record, every event with the run that emitted it.
\* ------------------------------------------------------------------------
NewBus == [listeners |-> <<>>, emitted |-> <<>>]

AuditEvent(type, r) == [type |-> type, by |-> r]

\* auditEmitter.onAudit(handler) in the constructor of run r's AuditLogger
onAudit(b, r) == [b EXCEPT !.listeners = Append(@, r)]

\* How often run r's handler is among the listeners
handlersOf(b, r) ==
    Cardinality({i \in DOMAIN b.listeners : b.listeners[i] = r})

\* The handler the constructor registers: this.runLog.events.push(event),
\* called once per registration
RECURSIVE pushed(_, _, _)
pushed(a, event, times) ==
    IF times = 0 THEN a
    ELSE pushed([a EXCEPT !.runLog.events = Append(@, event)], event, times - 1)

\* auditEmitter.emit(type, data): super.emit('audit', event) calls every
\* listener; the loggers afterwards
emit(b, loggers, event) ==
    [r \in DOMAIN loggers |-> pushed(loggers[r], event, handlersOf(b, r))]

\* ------------------------------------------------------------------------
\* Skill Lifecycle.  A loaded skill is its manifest's state in memory
\* ("undefined" when the manifest has none) and the state in its manifest
\* file skill.json ("absent" when the file cannot be read).
\* ------------------------------------------------------------------------
SkillStates == {"draft", "approved", "deprecated"}

\* Mutant: a draft can be retired directly.
validTransitions_draftRetires(currentState) ==
    CASE currentState = "draft" -> {"approved", "deprecated"}
      [] currentState = "approved" -> {"deprecated"}
      [] currentState = "deprecated" -> {"approved"}

validTransitions(currentState) ==
    CASE currentState = "draft" -> {"approved"}
      [] currentState = "approved" -> {"deprecated"}
      [] currentState = "deprecated" -> {"approved"}

\* SkillLifecycle.transition: the skill afterwards, and whether it threw
transition(sk, newState) ==
    LET currentState == IF sk.state = "undefined" THEN "draft" ELSE sk.state IN
    IF newState \notin validTransitions(currentState)
    THEN [state |-> sk.state, file |-> sk.file, raised |-> TRUE]
    ELSE IF sk.file = "absent"
    THEN [state |-> newState, file |-> sk.file, raised |-> TRUE]
    ELSE [state |-> newState, file |-> newState, raised |-> FALSE]

\* SkillLifecycle.canRunInDaemon
canRunInDaemon(sk, allowDrafts) ==
    LET state == IF sk.state = "undefined" THEN "draft" ELSE sk.state IN
    state = "approved" \/ (state = "draft" /\ allowDrafts)

\* ------------------------------------------------------------------------
\* Plan Proposer.  The status stored in a run's proposal.json: "proposed",
\* "pending", or "none" when the run has no proposal.json.
\* ------------------------------------------------------------------------
\* Mutant: any stored proposal is approved, whatever its status.
approve_anyStatus(status) ==
    IF status = "none"
    THEN [returned |-> FALSE, status |-> status]
    ELSE [returned |-> TRUE, status |-> "pending"]

\* PlanProposer.approve: what it returns and the status stored afterwards
approve(status) ==
    IF status = "none" \/ status # "proposed"
    THEN [returned |-> FALSE, status |-> status]
    ELSE [returned |-> TRUE, status |-> "pending"]

\* 'plan execute': whether it gets past its two checks to planRunner.run
executes(status) == status # "none" /\ ~(status # "pending")

\* ------------------------------------------------------------------------
\* Triggers.  File paths and path patterns are sequences of characters here.
\* ------------------------------------------------------------------------
\* new RegExp(`^${regexStr}$`).test(filePath), from position i of the path
\* and position j of the pattern: '**' has become '.*', a remaining '*' has
\* become '[^/]*', and every other character of the pattern is regular
\* expression source ('.' matches any character).
RECURSIVE regexTest(_, _, _, _)
regexTest(filePath, i, pattern, j) ==
    IF j > Len(pattern) THEN i > Len(filePath)
    ELSE IF pattern[j] = "*" /\ j < Len(pattern) /\ pattern[j + 1] = "*"
    THEN \E k \in i..(Len(filePath) + 1) : regexTest(filePath, k, pattern, j + 2)
    ELSE IF pattern[j] = "*"
    THEN \E k \in i..(Len(filePath) + 1) :
            /\ \A m \in i..(k - 1) : filePath[m] # "/"
            /\ regexTest(filePath, k, pattern, j + 1)
    ELSE /\ i <= Len(filePath)
         /\ pattern[j] = "." \/ pattern[j] = filePath[i]
         /\ regexTest(filePath, i + 1, pattern, j + 1)

matchPath(filePath, pattern) ==
    IF pattern = <<"*", "*", "/", "*">> THEN TRUE
    ELSE regexTest(filePath, 1, pattern, 1)

\* evaluateTrigger(trigger, event); a field that is undefined is "none"
evaluateTrigger(trigger, event) ==
    CASE trigger.type = "manual" -> event.type = "manual"
      [] trigger.type = "cron" -> event.type = "cron"
      [] trigger.type = "fs_change" ->
             IF event.type # "fs_change" \/ event.path = <<>> THEN FALSE
             ELSE IF trigger.paths = "none" \/ trigger.paths = <<>> THEN TRUE
             ELSE \E k \in DOMAIN trigger.paths :
                      matchPath(event.path, trigger.paths[k])
      [] trigger.type = "webhook" -> event.type = "webhook"
      [] OTHER -> FALSE

\* The glob matching of the file watcher (chokidar) on the paths it is
\* given: '**/' is any number of directories, '*' stays inside a path
\* segment, every other character stands for itself.
RECURSIVE globTest(_, _, _, _)
globTest(filePath, i, pattern, j) ==
    IF j > Len(pattern) THEN i > Len(filePath)
    ELSE IF /\ j + 2 <= Len(pattern)
            /\ SubSeq(pattern, j, j + 2) = <<"*", "*", "/">>
    THEN \/ globTest(filePath, i, pattern, j + 3)
         \/ \E k \in i..Len(filePath) :
               filePath[k] = "/" /\ globTest(filePath, k + 1, pattern, j + 3)
    ELSE IF pattern[j] = "*" /\ j < Len(pattern) /\ pattern[j + 1] = "*"
    THEN \E k \in i..(Len(filePath) + 1) : globTest(filePath, k, pattern, j + 2)
    ELSE IF pattern[j] = "*"
    THEN \E k \in i..(Len(filePath) + 1) :
            /\ \A m \in i..(k - 1) : filePath[m] # "/"
            /\ globTest(filePath, k, pattern, j + 1)
    ELSE /\ i <= Len(filePath)
         /\ pattern[j] = filePath[i]
         /\ globTest(filePath, i + 1, pattern, j + 1)

\* Whether the watcher created by watch(paths, ...) reports a file
watched(filePath, paths) ==
    \E k \in DOMAIN paths : globTest(filePath, 1, paths[k], 1)

\* ------------------------------------------------------------------------
\* State
\* ------------------------------------------------------------------------
NoError == [kind |-> "none", deps |-> <<>>]
Error(kind) == [kind |-> kind, deps |-> <<>>]

\* One entry of the per-run trace: an audit event (run_start, step_start,
\* tool_call, ...) or a call (executeStep, check, approver, dispatch, op,
\* verify, chat).
Ev(kind, step, tool, info) ==
    [kind |-> kind, step |-> step, tool |-> tool, info |-> info]

NoResult == [success |-> FALSE, error |-> "none"]
NoSkill == [name |-> "none", i |-> 0, rounds |-> 0, pending |-> <<>>,
            toolCalls |-> <<>>, messages |-> <<>>]
RegIdle == [name |-> <<>>, inputValid |-> FALSE, registered |-> FALSE,
            enabled |-> <<>>, called |-> FALSE,
            result |-> [success |-> FALSE, error |-> "none", invoked |-> FALSE]]

NoQuery == [op |-> "none"]

\* No daemon process: the process is a CLI command or the MCP server, which
\* call registerCoreTools on the registry
DaemonOff == [up |-> FALSE, exited |-> FALSE, tools |-> CoreTools,
              cronJobs |-> {}, watchers |-> {}, fired |-> <<>>,
              inFlight |-> {}, events |-> <<>>]

NoProposals == [stored |-> [r \in Runs |-> "none"], calls |-> <<>>]

\* The tools of the process's ToolRegistry (ToolRegistry.getInstance())
Registered == daemon.tools

\* The state shared by every specification before any run has started;
\* started is the set of runs that may start.
FreshRuns(started, plans) ==
    /\ catalogue = plans
    /\ sessionApprovals = {}
    /\ pc = [r \in Runs |-> IF r \in started THEN "idle" ELSE "off"]
    /\ plan = [r \in Runs |-> <<>>]
    /\ ctx = [r \in Runs |-> [onApproval |-> FALSE, autonomous |-> FALSE,
                              approvedPermissions |-> {}]]
    /\ planRun = [r \in Runs |-> [status |-> "none", steps |-> <<>>]]
    /\ idx = [r \in Runs |-> 0]
    /\ attempt = [r \in Runs |-> 0]
    /\ result = [r \in Runs |-> NoResult]
    /\ skill = [r \in Runs |-> NoSkill]
    /\ trace = [r \in Runs |-> <<>>]
    /\ rollback = NewTracker
    /\ audit = [r \in Runs |-> NewLogger]
    /\ bus = NewBus

\* The same, in a process that is not the daemon and with the components
\* that are specified on their own left idle
Fresh(started, plans) ==
    /\ FreshRuns(started, plans)
    /\ config \in Configs
    /\ query = NoQuery
    /\ daemon = DaemonOff
    /\ lifecycle = <<>>
    /\ proposals = NoProposals

\* One process, one Policy Engine, one plan run (the CLI's plan run).
Init ==
    /\ Fresh({1}, Plans)
    /\ reg = RegIdle
    /\ files \in InitialFiles

CurStep(r) == plan[r][idx[r]]

Emit(r, evs) == trace' = [trace EXCEPT ![r] = @ \o evs]

SetStep(r, field, value) ==
    [planRun EXCEPT ![r].steps[idx[r]][field] = value]

\* ------------------------------------------------------------------------
\* Plan Runner
\* ------------------------------------------------------------------------
\* planRun.steps.find((s) => s.stepId === id): its index, 0 when absent
RECURSIVE findStepRun(_, _, _)
findStepRun(steps, id, i) ==
    IF i > Len(steps) THEN 0
    ELSE IF steps[i].stepId = id THEN i
    ELSE findStepRun(steps, id, i + 1)

\* Mutant: a dependency that failed or was skipped counts as met.
unmetDeps_pendingOnly(step, steps) ==
    SelectSeq(step.dependsOn,
              LAMBDA depId :
                  LET j == findStepRun(steps, depId, 1) IN
                  j = 0 \/ steps[j].status = "pending")

unmetDeps(step, steps) ==
    SelectSeq(step.dependsOn,
              LAMBDA depId :
                  LET j == findStepRun(steps, depId, 1) IN
                  j = 0 \/ steps[j].status # "completed")

\* PlanRunner.run(p, c) up to the first step
Launch(r, p, c) ==
    /\ plan' = [plan EXCEPT ![r] = p]
    /\ ctx' = [ctx EXCEPT ![r] = c]
    /\ planRun' = [planRun EXCEPT ![r] =
          [status |-> "running",
           steps |-> [i \in 1..Len(p) |->
                        [stepId |-> p[i].id, status |-> "pending",
                         error |-> NoError, verification |-> "undefined"]]]]
    /\ idx' = [idx EXCEPT ![r] = 1]
    /\ pc' = [pc EXCEPT ![r] = "loop"]
    /\ audit' = [audit EXCEPT ![r] = save(NewLogger)]
    /\ Emit(r, <<Ev("run_start", "-", <<>>, "-")>>)

\* A caller starts a plan run with the context it built
RunStart(r) ==
    /\ pc[r] = "idle"
    /\ \E p \in catalogue, c \in Contexts : Launch(r, p, c)
    /\ UNCHANGED <<config, catalogue, bus, query, daemon, lifecycle, proposals, sessionApprovals, attempt, result, skill, reg,
                   files, rollback>>

\* The dependency check skips the step
DependencySkip(r) ==
    /\ pc[r] = "loop"
    /\ idx[r] <= Len(plan[r])
    /\ unmetDeps(CurStep(r), planRun[r].steps) # <<>>
    /\ planRun' = [planRun EXCEPT
          ![r].steps[idx[r]].status = "skipped",
          ![r].steps[idx[r]].error =
              [kind |-> "unmet_dependencies",
               deps |-> unmetDeps(CurStep(r), planRun[r].steps)]]
    /\ idx' = [idx EXCEPT ![r] = @ + 1]
    /\ UNCHANGED <<config, catalogue, bus, query, daemon, lifecycle, proposals, sessionApprovals, pc, plan, ctx, attempt, result,
                   skill, trace, reg, files, rollback, audit>>

\* The step starts: running, step_start, executeStep is called
StepStart(r) ==
    /\ pc[r] = "loop"
    /\ idx[r] <= Len(plan[r])
    /\ unmetDeps(CurStep(r), planRun[r].steps) = <<>>
    /\ planRun' = SetStep(r, "status", "running")
    /\ attempt' = [attempt EXCEPT ![r] = 0]
    /\ pc' = [pc EXCEPT ![r] = "exec"]
    /\ Emit(r, <<Ev("step_start", CurStep(r).id, CurStep(r).tool, "-")>>)
    /\ audit' = [audit EXCEPT ![r] =
          addStep(@, StepLog(CurStep(r).id, "running", "args"))]
    /\ UNCHANGED <<config, catalogue, bus, query, daemon, lifecycle, proposals, sessionApprovals, plan, ctx, idx, result, skill, reg,
                   files, rollback>>

\* ------------------------------------------------------------------------
\* Execution Engine
\* ------------------------------------------------------------------------
AtExec(r) == pc[r] = "exec"

\* executeStep returns res to the Plan Runner, after the events evs
Return(r, res, evs) ==
    /\ result' = [result EXCEPT ![r] = res]
    /\ pc' = [pc EXCEPT ![r] = "returned"]
    /\ Emit(r, evs \o <<Ev("return", CurStep(r).id, CurStep(r).tool,
                           IF res.success THEN "ok" ELSE "failed")>>)

\* executeStep on a step with neither skill nor tool
ExecuteNeither(r) ==
    /\ AtExec(r)
    /\ CurStep(r).skill = "none"
    /\ CurStep(r).tool = NoTool
    /\ Return(r, [success |-> FALSE, error |-> "neither_skill_nor_tool"],
              <<Ev("executeStep", CurStep(r).id, NoTool, "-")>>)
    /\ UNCHANGED <<config, catalogue, bus, query, daemon, lifecycle, proposals, sessionApprovals, plan, ctx, planRun, idx, attempt,
                   skill, reg, files, rollback, audit>>

\* executeToolStep up to the end of checkPermission
ExecuteToolStep(r) ==
    LET step == CurStep(r)
        call == Ev("executeStep", step.id, step.tool, "-")
    IN
    /\ AtExec(r)
    /\ step.skill = "none"
    /\ step.tool # NoTool
    /\ IF ~has(Registered, step.tool)
       THEN Return(r, [success |-> FALSE, error |-> "not_found"], <<call>>)
       ELSE LET permResult == checkPermission(config, sessionApprovals,
                                  ActionOf(Registered, step.tool, step.args),
                                  ctx[r])
            IN
            IF permResult.allowed
            THEN /\ pc' = [pc EXCEPT ![r] = "dispatch"]
                 /\ Emit(r, <<call, Ev("check", step.id, step.tool, "allowed")>>)
                 /\ UNCHANGED result
            ELSE IF permResult.requiresApproval
            THEN /\ pc' = [pc EXCEPT ![r] = "approval"]
                 /\ Emit(r, <<call, Ev("check", step.id, step.tool, "needs_approval")>>)
                 /\ UNCHANGED result
            ELSE Return(r, [success |-> FALSE, error |-> permResult.reason],
                        <<call, Ev("check", step.id, step.tool, "denied"),
                          Ev("permission_denied", step.id, step.tool, "-")>>)
    /\ UNCHANGED <<config, catalogue, bus, query, daemon, lifecycle, proposals, sessionApprovals, plan, ctx, planRun, idx, attempt,
                   skill, reg, files, rollback, audit>>

\* The events of one requestApproval
ApprovalEvents(stepId, tool, ra, reply) ==
    (IF ra.prompted
     THEN <<Ev("approver", stepId, tool, IF reply THEN "yes" ELSE "no")>>
     ELSE <<>>)
    \o (IF ra.event # "none" THEN <<Ev(ra.event, stepId, tool, "-")>> ELSE <<>>)

\* executeToolStep: requestApproval and its outcome
StepApproval(r) ==
    LET step == CurStep(r) IN
    /\ pc[r] = "approval"
    /\ \E reply \in BOOLEAN :
        LET ra == requestApproval(sessionApprovals,
                      ActionOf(Registered, step.tool, step.args), ctx[r], reply)
        IN
        /\ sessionApprovals' = ra.approvals
        /\ IF ra.approved
           THEN /\ pc' = [pc EXCEPT ![r] = "dispatch"]
                /\ Emit(r, ApprovalEvents(step.id, step.tool, ra, reply))
                /\ UNCHANGED result
           ELSE Return(r, [success |-> FALSE, error |-> "denied_by_user"],
                       ApprovalEvents(step.id, step.tool, ra, reply))
    /\ UNCHANGED <<config, catalogue, bus, query, daemon, lifecycle, proposals, plan, ctx, planRun, idx, attempt, skill, reg, files, rollback, audit>>

\* The events of one registry.execute followed by the tool_call emit
DispatchEvents(stepId, tool, res) ==
    <<Ev("dispatch", stepId, tool, "-")>>
    \o (IF res.invoked THEN <<Ev("op", stepId, tool, "-")>> ELSE <<>>)
    \o <<Ev("tool_call", stepId, tool, IF res.success THEN "ok" ELSE "failed")>>

\* executeToolStep after the permission check: captureBeforeState,
\* registry.execute, tool_call, captureAfterState, return.  The result
\* keeps, for the record, what the tool's operation did (outcome).
StepDispatch(r) ==
    LET step == CurStep(r)
        tracked == startsWith(step.tool, <<"f", "s", ".">>) /\ step.args.path # <<>>
        absPath == resolve(ProjectRoot, step.args.path)
        before == IF tracked
                  THEN Logged(captureBeforeState(rollback, files, step.id, absPath),
                              "capture_before", step.id, absPath, files)
                  ELSE rollback
    IN
    /\ pc[r] = "dispatch"
    /\ \E outcome \in Outcomes :
        LET res == execute(Registered, step.tool, step.args.valid,
                           config.tools.enabled, outcome)
        IN
        /\ \E landed \in Landings(IF res.invoked THEN outcome ELSE "fail") :
              /\ files' = toolEffect(files, step.tool, step.args, landed)
              /\ rollback' =
                    IF tracked /\ res.success
                    THEN Logged(captureAfterState(before, files', step.id, absPath),
                                "capture_after", step.id, absPath, files')
                    ELSE before
        /\ Return(r, [success |-> res.success, error |-> res.error,
                      outcome |-> IF res.invoked THEN outcome ELSE "none"],
                  DispatchEvents(step.id, step.tool, res))
    /\ UNCHANGED <<config, catalogue, bus, query, daemon, lifecycle, proposals, sessionApprovals, plan, ctx, planRun, idx, attempt,
                   skill, reg, audit>>

\* ------------------------------------------------------------------------
\* Plan Runner, after executeStep
\* ------------------------------------------------------------------------
\* The first executeStep returned: status, error, and whether to verify
RecordResult(r) ==
    /\ pc[r] = "returned"
    /\ attempt[r] = 0
    /\ planRun' = [planRun EXCEPT
          ![r].steps[idx[r]].status =
              IF result[r].success THEN "completed" ELSE "failed",
          ![r].steps[idx[r]].error =
              IF result[r].error = "none" THEN NoError ELSE Error(result[r].error)]
    /\ pc' = [pc EXCEPT ![r] =
          IF CurStep(r).verify /\ result[r].success THEN "verify" ELSE "handle"]
    /\ UNCHANGED <<config, catalogue, bus, query, daemon, lifecycle, proposals, sessionApprovals, plan, ctx, idx, attempt, result,
                   skill, trace, reg, files, rollback, audit>>

\* engine.verify returned
VerifyStep(r) ==
    /\ pc[r] = "verify"
    /\ \E passed \in BOOLEAN :
        /\ planRun' = [planRun EXCEPT
              ![r].steps[idx[r]].verification =
                  IF passed THEN "passed" ELSE "failed",
              ![r].steps[idx[r]].status = IF passed THEN @ ELSE "failed",
              ![r].steps[idx[r]].error =
                  IF passed THEN @ ELSE Error("verification_failed")]
        /\ Emit(r, <<Ev("verify", CurStep(r).id, CurStep(r).tool,
                        IF passed THEN "passed" ELSE "failed")>>)
    /\ pc' = [pc EXCEPT ![r] = "handle"]
    /\ UNCHANGED <<config, catalogue, bus, query, daemon, lifecycle, proposals, sessionApprovals, plan, ctx, idx, attempt, result,
                   skill, reg, files, rollback, audit>>

\* Mutant: abort, stated or by default, is treated like skip.
failureAction_neverAbort(step) ==
    IF step.onFailure \in {"undefined", "abort"} THEN "skip" ELSE step.onFailure

\* step.onFailure ?? 'abort'
failureAction(step) ==
    IF step.onFailure = "undefined" THEN "abort" ELSE step.onFailure

\* Mutant: one attempt more than step.retries.
retryLoopContinues_oneMore(step, k) == k <= step.retries + 1

\* The retry loop's condition: attempt <= (step.retries ?? 0)
retryLoopContinues(step, k) == k <= step.retries

\* step_complete or step_failed, then the failure policy
HandleOutcome(r) ==
    LET step == CurStep(r)
        status == planRun[r].steps[idx[r]].status
    IN
    /\ pc[r] = "handle"
    /\ Emit(r, <<Ev(IF status = "completed" THEN "step_complete" ELSE "step_failed",
                    step.id, step.tool, "-")>>)
    /\ IF status = "failed" /\ failureAction(step) = "retry" /\ step.retries > 0
       THEN /\ attempt' = [attempt EXCEPT ![r] = 1]
            /\ pc' = [pc EXCEPT ![r] = "exec"]
            /\ UNCHANGED <<planRun, idx>>
       ELSE IF status = "failed" /\ failureAction(step) = "abort"
       THEN /\ planRun' = [planRun EXCEPT ![r].status = "failed"]
            /\ pc' = [pc EXCEPT ![r] = "finish"]
            /\ UNCHANGED <<attempt, idx>>
       ELSE /\ idx' = [idx EXCEPT ![r] = @ + 1]
            /\ pc' = [pc EXCEPT ![r] = "loop"]
            /\ UNCHANGED <<attempt, planRun>>
    /\ audit' = [audit EXCEPT ![r] = updateStep(@, step.id, status)]
    /\ UNCHANGED <<config, catalogue, bus, query, daemon, lifecycle, proposals, sessionApprovals, plan, ctx, result, skill, reg,
                   files, rollback>>

\* A retry's executeStep returned
RetryResult(r) ==
    LET step == CurStep(r) IN
    /\ pc[r] = "returned"
    /\ attempt[r] >= 1
    /\ IF result[r].success
       THEN /\ planRun' = [planRun EXCEPT
                  ![r].steps[idx[r]].status = "completed",
                  ![r].steps[idx[r]].error = NoError]
            /\ idx' = [idx EXCEPT ![r] = @ + 1]
            /\ pc' = [pc EXCEPT ![r] = "loop"]
            /\ UNCHANGED attempt
       ELSE IF retryLoopContinues(step, attempt[r] + 1)
       THEN /\ attempt' = [attempt EXCEPT ![r] = @ + 1]
            /\ pc' = [pc EXCEPT ![r] = "exec"]
            /\ UNCHANGED <<planRun, idx>>
       ELSE /\ planRun' = [planRun EXCEPT ![r].status = "failed"]
            /\ pc' = [pc EXCEPT ![r] = "finish"]
            /\ UNCHANGED <<attempt, idx>>
    /\ UNCHANGED <<config, catalogue, bus, query, daemon, lifecycle, proposals, sessionApprovals, plan, ctx, result, skill, trace, reg, files, rollback, audit>>

\* The loop is over: final status, run_complete
RunFinish(r) ==
    /\ \/ pc[r] = "finish"
       \/ pc[r] = "loop" /\ idx[r] > Len(plan[r])
    /\ planRun' = [planRun EXCEPT ![r].status =
          IF @ = "running" THEN "completed" ELSE @]
    /\ pc' = [pc EXCEPT ![r] = "done"]
    /\ Emit(r, <<Ev("run_complete", "-", <<>>, planRun'[r].status)>>)
    /\ audit' = [audit EXCEPT ![r] =
          complete(@, IF planRun'[r].status = "completed"
                      THEN "completed" ELSE "failed")]
    /\ UNCHANGED <<config, catalogue, bus, query, daemon, lifecycle, proposals, sessionApprovals, plan, ctx, idx, attempt, result,
                   skill, reg, files, rollback>>

\* The messages the loop starts with: the prompt and the inputs
FirstMessages == <<[role |-> "system"], [role |-> "user"]>>

\* The tool calls of the response of iteration i, with the ids the model
\* gave them
tagged(calls, i) ==
    [k \in DOMAIN calls |->
        [name |-> calls[k].name, args |-> calls[k].args, id |-> <<i, k>>]]

\* messages.push({role: 'assistant', content, toolCalls})
assistantMessage(messages, calls) ==
    Append(messages, [role |-> "assistant",
                      toolCalls |-> [k \in DOMAIN calls |-> calls[k].id]])

\* Mutant: only the result of a dispatched call is pushed.
toolMessage_resultsOnly(messages, tc, content) ==
    IF content = "result"
    THEN Append(messages, [role |-> "tool", toolCallId |-> tc.id])
    ELSE messages

\* messages.push({role: 'tool', content, toolCallId: tc.id}); content is
\* an error object or the result of registry.execute
toolMessage(messages, tc, content) ==
    Append(messages, [role |-> "tool", toolCallId |-> tc.id])

\* ------------------------------------------------------------------------
\* Skill Runner (prompt-driven skill)
\* ------------------------------------------------------------------------
\* executeSkillStep and SkillRunner.run up to the first model call
ExecuteSkillStep(r) ==
    LET step == CurStep(r)
        call == Ev("executeStep", step.id, NoTool, "-")
    IN
    /\ AtExec(r)
    /\ step.skill # "none"
    /\ IF step.skill \notin DOMAIN Skills
       THEN /\ Return(r, [success |-> FALSE, error |-> "skill_not_found"],
                      <<call>>)
            /\ UNCHANGED skill
       ELSE /\ skill' = [skill EXCEPT ![r] =
                  [name |-> step.skill, i |-> 0, rounds |-> 0, pending |-> <<>>,
                   toolCalls |-> <<>>,
                   messages |-> IF Skills[step.skill].prompt
                                THEN FirstMessages ELSE <<>>]]
            /\ pc' = [pc EXCEPT ![r] =
                  IF Skills[step.skill].prompt THEN "chat" ELSE "workflow"]
            /\ Emit(r, <<call, Ev("skill_loaded", step.id, NoTool, "-")>>)
            /\ UNCHANGED result
    /\ UNCHANGED <<config, catalogue, bus, query, daemon, lifecycle, proposals, sessionApprovals, plan, ctx, planRun, idx, attempt, reg, files, rollback, audit>>

\* What llmRouter.chat may return: a final text, an exception, or tool calls
Responses ==
    {[kind |-> "final", calls |-> <<>>], [kind |-> "throw", calls |-> <<>>]}
    \cup {[kind |-> "calls", calls |-> <<tc>>] : tc \in LLMToolCalls}

\* Responses with two tool calls: one of a tool the registry does not hold
\* or the policy denies, then one of a tool that needs a check
PairResponses ==
    {[kind |-> "calls",
      calls |-> << [name |-> pair[1], args |-> NoArgs],
                   [name |-> pair[2], args |-> ArgsHello] >>] :
        pair \in {<<Ghost, FsWrite>>, <<Vault, FsRead>>}}

\* What the model answers to the prompt of a skill: the prompt of "loop"
\* makes it ask for the same tool again and again, as long as it is called.
ResponsesTo(name) ==
    CASE name = "loop" ->
             {resp \in Responses :
                  resp.kind = "calls" => resp.calls[1].name = Ghost}
      [] name = "sketch" -> {resp \in Responses : resp.kind # "calls"}
      [] name = "triage" ->
             {resp \in Responses : resp.kind # "calls"} \cup PairResponses
      [] OTHER -> Responses

\* The number of responses with tool calls the model gives in one skill run
RoundLimit(name) == IF name = "loop" THEN maxIterations ELSE MaxToolRounds

\* Mutant: the loop runs one more iteration.
loopContinues_inclusive(i) == i <= maxIterations

\* The agentic loop's condition: i < maxIterations
loopContinues(i) == i < maxIterations

\* One iteration of the agentic loop: the model call
SkillChat(r) ==
    /\ pc[r] = "chat"
    /\ IF ~loopContinues(skill[r].i)
       THEN /\ pc' = [pc EXCEPT ![r] = "validators"]
            /\ UNCHANGED <<skill, result, trace>>
       ELSE \E resp \in ResponsesTo(skill[r].name) :
            /\ resp.kind = "calls" => skill[r].rounds < RoundLimit(skill[r].name)
            /\ CASE resp.kind = "throw" ->
                      /\ Return(r, [success |-> FALSE, error |-> "exception"],
                                <<Ev("chat", CurStep(r).id, NoTool, resp.kind)>>)
                      /\ UNCHANGED skill
                 [] resp.kind = "final" ->
                      /\ pc' = [pc EXCEPT ![r] = "validators"]
                      /\ Emit(r, <<Ev("chat", CurStep(r).id, NoTool, resp.kind)>>)
                      /\ UNCHANGED <<skill, result>>
                 [] resp.kind = "calls" ->
                      /\ skill' = [skill EXCEPT
                            ![r].pending = tagged(resp.calls, skill[r].i),
                            ![r].rounds = @ + 1,
                            ![r].messages =
                                assistantMessage(@, tagged(resp.calls, skill[r].i))]
                      /\ pc' = [pc EXCEPT ![r] = "toolcall"]
                      /\ Emit(r, <<Ev("chat", CurStep(r).id, NoTool, resp.kind)>>)
                      /\ UNCHANGED result
    /\ UNCHANGED <<config, catalogue, bus, query, daemon, lifecycle, proposals, sessionApprovals, plan, ctx, planRun, idx, attempt, reg, files, rollback, audit>>

\* The tool call at the head of the response is refused with an error
\* message: the next one, or the next iteration
CallDone(r) ==
    /\ skill' = [skill EXCEPT
          ![r].pending = Tail(@),
          ![r].i = IF Len(skill[r].pending) = 1 THEN @ + 1 ELSE @,
          ![r].messages = toolMessage(@, Head(skill[r].pending), "error")]
    /\ pc' = [pc EXCEPT ![r] =
          IF Len(skill[r].pending) = 1 THEN "chat" ELSE "toolcall"]

\* A tool call of the response: registry.get and checkPermission
SkillToolCheck(r) ==
    LET tc == Head(skill[r].pending)
        id == CurStep(r).id
    IN
    /\ pc[r] = "toolcall"
    /\ IF ~has(Registered, tc.name)
       THEN /\ CallDone(r)
            /\ UNCHANGED trace
       ELSE LET permResult == checkPermission(config, sessionApprovals,
                                  ActionOf(Registered, tc.name, tc.args), ctx[r])
            IN
            IF permResult.allowed
            THEN /\ pc' = [pc EXCEPT ![r] = "tc_dispatch"]
                 /\ Emit(r, <<Ev("check", id, tc.name, "allowed")>>)
                 /\ UNCHANGED skill
            ELSE IF permResult.requiresApproval
            THEN /\ pc' = [pc EXCEPT ![r] = "tc_approval"]
                 /\ Emit(r, <<Ev("check", id, tc.name, "needs_approval")>>)
                 /\ UNCHANGED skill
            ELSE /\ CallDone(r)
                 /\ Emit(r, <<Ev("check", id, tc.name, "denied"),
                              Ev("permission_denied", id, tc.name, "-")>>)
    /\ UNCHANGED <<config, catalogue, bus, query, daemon, lifecycle, proposals, sessionApprovals, plan, ctx, planRun, idx, attempt,
                   result, reg, files, rollback, audit>>

\* A tool call of the response: requestApproval
SkillApproval(r) ==
    LET tc == Head(skill[r].pending) IN
    /\ pc[r] = "tc_approval"
    /\ \E reply \in BOOLEAN :
        LET ra == requestApproval(sessionApprovals,
                      ActionOf(Registered, tc.name, tc.args), ctx[r], reply)
        IN
        /\ sessionApprovals' = ra.approvals
        /\ Emit(r, ApprovalEvents(CurStep(r).id, tc.name, ra, reply))
        /\ IF ra.approved
           THEN /\ pc' = [pc EXCEPT ![r] = "tc_dispatch"]
                /\ UNCHANGED skill
           ELSE CallDone(r)
    /\ UNCHANGED <<config, catalogue, bus, query, daemon, lifecycle, proposals, plan, ctx, planRun, idx, attempt, result, reg, files, rollback, audit>>

\* A tool call of the response: registry.execute, toolCalls.push, tool_call
SkillDispatch(r) ==
    LET tc == Head(skill[r].pending) IN
    /\ pc[r] = "tc_dispatch"
    /\ \E outcome \in Outcomes :
        LET res == execute(Registered, tc.name, tc.args.valid,
                           config.tools.enabled, outcome)
        IN
        /\ Emit(r, DispatchEvents(CurStep(r).id, tc.name, res))
        /\ \E landed \in Landings(IF res.invoked THEN outcome ELSE "fail") :
              files' = toolEffect(files, tc.name, tc.args, landed)
    /\ skill' = [skill EXCEPT
          ![r].pending = Tail(@),
          ![r].i = IF Len(skill[r].pending) = 1 THEN @ + 1 ELSE @,
          ![r].toolCalls = Append(@, tc.name),
          ![r].messages = toolMessage(@, tc, "result")]
    /\ pc' = [pc EXCEPT ![r] =
          IF Len(skill[r].pending) = 1 THEN "chat" ELSE "toolcall"]
    /\ UNCHANGED <<config, catalogue, bus, query, daemon, lifecycle, proposals, sessionApprovals, plan, ctx, planRun, idx, attempt,
                   result, reg, rollback, audit>>

\* ------------------------------------------------------------------------
\* Skill Runner (workflow-driven skill)
\* ------------------------------------------------------------------------
\* Mutant: any registered tool passes the allow-list check.
allowedForSkill_registered(name, toolName) == has(Registered, toolName)

\* skill.manifest.tools.includes(toolName)
allowedForSkill(name, toolName) == toolName \in Skills[name].tools

\* The workflow calls toolExecutor(toolName, args)
WorkflowCall(r) ==
    LET id == CurStep(r).id IN
    /\ pc[r] = "workflow"
    /\ skill[r].rounds < MaxToolRounds
    /\ \E tc \in WorkflowCalls, outcome \in Outcomes :
        IF ~allowedForSkill(skill[r].name, tc.name)
        THEN /\ outcome = "ok"
             /\ Emit(r, <<Ev("tool_executor", id, tc.name, "refused")>>)
             /\ skill' = [skill EXCEPT ![r].rounds = @ + 1]
             /\ UNCHANGED files
        ELSE LET res == execute(Registered, tc.name, tc.args.valid,
                                config.tools.enabled, outcome)
             IN
             /\ Emit(r, <<Ev("tool_executor", id, tc.name, "routed"),
                          Ev("wf_dispatch", id, tc.name, "-")>>
                         \o (IF res.invoked
                             THEN <<Ev("wf_op", id, tc.name, "-")>> ELSE <<>>))
             /\ skill' = [skill EXCEPT ![r].rounds = @ + 1,
                                       ![r].toolCalls = Append(@, tc.name)]
             /\ \E landed \in Landings(IF res.invoked THEN outcome ELSE "fail") :
                   files' = toolEffect(files, tc.name, tc.args, landed)
    /\ UNCHANGED <<config, catalogue, bus, query, daemon, lifecycle, proposals, sessionApprovals, pc, plan, ctx, planRun, idx,
                   attempt, result, reg, rollback, audit>>

\* The workflow function returns, or throws
WorkflowReturn(r) ==
    /\ pc[r] = "workflow"
    /\ \E threw \in BOOLEAN :
        IF threw
        THEN Return(r, [success |-> FALSE, error |-> "exception"], <<>>)
        ELSE /\ pc' = [pc EXCEPT ![r] = "validators"]
             /\ UNCHANGED <<result, trace>>
    /\ UNCHANGED <<config, catalogue, bus, query, daemon, lifecycle, proposals, sessionApprovals, plan, ctx, planRun, idx, attempt,
                   skill, reg, files, rollback, audit>>

\* After the loop: runValidators and the SkillRunResult
SkillValidators(r) ==
    /\ pc[r] = "validators"
    /\ \E passed \in BOOLEAN :
        /\ ~Skills[skill[r].name].validators => passed
        /\ Return(r, [success |-> passed, error |-> "none"], <<>>)
    /\ UNCHANGED <<config, catalogue, bus, query, daemon, lifecycle, proposals, sessionApprovals, plan, ctx, planRun, idx, attempt,
                   skill, reg, files, rollback, audit>>

\* ------------------------------------------------------------------------
\* Specification: plan runs served by one Policy Engine
\* ------------------------------------------------------------------------
Next ==
    \E r \in Runs :
        \/ RunStart(r)
        \/ DependencySkip(r)
        \/ StepStart(r)
        \/ ExecuteNeither(r)
        \/ ExecuteToolStep(r)
        \/ StepApproval(r)
        \/ StepDispatch(r)
        \/ ExecuteSkillStep(r)
        \/ SkillChat(r)
        \/ SkillToolCheck(r)
        \/ SkillApproval(r)
        \/ SkillDispatch(r)
        \/ SkillValidators(r)
        \/ WorkflowCall(r)
        \/ WorkflowReturn(r)
        \/ RecordResult(r)
        \/ VerifyStep(r)
        \/ HandleOutcome(r)
        \/ RetryResult(r)
        \/ RunFinish(r)

Spec == Init /\ [][Next]_vars

\* The same, when every call that is made returns: a step that can be taken
\* is eventually taken.
SpecLive == Init /\ [][Next]_vars /\ WF_vars(Next)

\* ------------------------------------------------------------------------
\* Specification: several runs served by the same Policy Engine, each with
\* its own ExecutionContext (createMcpHandlers, startScheduler)
\* ------------------------------------------------------------------------
SharedPlans == {PlanTwice}

InitShared ==
    /\ Fresh(Runs, SharedPlans)
    /\ reg = RegIdle
    /\ files = (HelloPath :> "old")

NextShared ==
    \E r \in Runs :
        \/ RunStart(r)
        \/ DependencySkip(r)
        \/ StepStart(r)
        \/ ExecuteToolStep(r)
        \/ StepApproval(r)
        \/ StepDispatch(r)
        \/ RecordResult(r)
        \/ HandleOutcome(r)
        \/ RunFinish(r)

SpecShared == InitShared /\ [][NextShared]_vars

\* ------------------------------------------------------------------------
\* Specification: ToolRegistry.execute on arbitrary names and enable-lists
\* ------------------------------------------------------------------------
RegChars == {"f", "s", ".", "*"}

RegNames == UNION {[1..n -> RegChars] : n \in 1..MaxNameLen}

\* Enable-lists: empty, one pattern, or a pattern behind one that is no match
EnabledLists ==
    {<<>>} \cup {<<p>> : p \in RegNames} \cup {<<CmdRun, p>> : p \in RegNames}

InitRegistry ==
    /\ Fresh({}, {})
    /\ config = ConfigDefault
    /\ files = (HelloPath :> "old")
    /\ reg \in [name : RegNames, inputValid : BOOLEAN, registered : BOOLEAN,
                enabled : EnabledLists, called : {FALSE},
                result : {RegIdle.result}]

\* registry.execute(reg.name, input, ctx) with ctx.config.tools.enabled =
\* reg.enabled, on a registry that holds reg.name or not
RegistryExecute ==
    /\ ~reg.called
    /\ \E outcome \in Outcomes :
        reg' = [reg EXCEPT
            !.called = TRUE,
            !.result = execute(IF reg.registered
                               THEN (reg.name :> [permissions |-> <<>>])
                               ELSE <<>>,
                               reg.name, reg.inputValid, reg.enabled, outcome)]
    /\ UNCHANGED <<config, catalogue, bus, query, daemon, lifecycle, proposals, sessionApprovals, pc, plan, ctx, planRun,
                   idx, attempt, result, skill, trace, files,
                   rollback, audit>>

NextRegistry == RegistryExecute

SpecRegistry == InitRegistry /\ [][NextRegistry]_vars

\* ------------------------------------------------------------------------
\* Specification: the RollbackTracker called on its own, around the writes
\* of the steps it tracks
\* ------------------------------------------------------------------------
FileContents == {"absent", "", "old", "new"}

TrackerSteps == {"A", "B"}

TrackerOpen == Len(rollback.log) < MaxTrackerOps

InitRollback ==
    /\ Fresh({}, {})
    /\ config = ConfigDefault
    /\ reg = RegIdle
    /\ files \in {(HelloPath :> c) : c \in FileContents}

TrackerCaptureBefore ==
    /\ TrackerOpen
    /\ \E s \in TrackerSteps :
        rollback' = Logged(captureBeforeState(rollback, files, s, HelloPath),
                           "capture_before", s, HelloPath, files)
    /\ UNCHANGED <<config, catalogue, bus, query, daemon, lifecycle, proposals, sessionApprovals, pc, plan, ctx, planRun,
                   idx, attempt, result, skill, trace, reg, files, audit>>

\* A step's tool writes the file, or removes it
TrackerMutate ==
    /\ TrackerOpen
    /\ \E c \in FileContents \ {files[HelloPath]} :
        files' = writeFile(files, HelloPath, c)
    /\ rollback' = Logged(rollback, "mutate", "-", HelloPath, files)
    /\ UNCHANGED <<config, catalogue, bus, query, daemon, lifecycle, proposals, sessionApprovals, pc, plan, ctx, planRun,
                   idx, attempt, result, skill, trace, reg, audit>>

TrackerCaptureAfter ==
    /\ TrackerOpen
    /\ \E s \in TrackerSteps :
        rollback' = Logged(captureAfterState(rollback, files, s, HelloPath),
                           "capture_after", s, HelloPath, files)
    /\ UNCHANGED <<config, catalogue, bus, query, daemon, lifecycle, proposals, sessionApprovals, pc, plan, ctx, planRun,
                   idx, attempt, result, skill, trace, reg, files, audit>>

TrackerRollbackStep ==
    /\ TrackerOpen
    /\ \E s \in TrackerSteps :
        /\ files' = rollbackStep(rollback, files, s)
        /\ rollback' = Logged(rollback, "rollback_step", s, HelloPath, files)
    /\ UNCHANGED <<config, catalogue, bus, query, daemon, lifecycle, proposals, sessionApprovals, pc, plan, ctx, planRun,
                   idx, attempt, result, skill, trace, reg, audit>>

TrackerRollbackAll ==
    /\ TrackerOpen
    /\ files' = rollbackAll(rollback, files)
    /\ rollback' = Logged(rollback, "rollback_all", "-", HelloPath, files)
    /\ UNCHANGED <<config, catalogue, bus, query, daemon, lifecycle, proposals, sessionApprovals, pc, plan, ctx, planRun,
                   idx, attempt, result, skill, trace, reg, audit>>

NextRollback ==
    \/ TrackerCaptureBefore
    \/ TrackerMutate
    \/ TrackerCaptureAfter
    \/ TrackerRollbackStep
    \/ TrackerRollbackAll

SpecRollback == InitRollback /\ [][NextRollback]_vars

\* ------------------------------------------------------------------------
\* Specification: the daemon's scheduler (startScheduler)
\* ------------------------------------------------------------------------
\* A plan file as planParser.parseFile returns it
PlanFile(name, triggerType, mode, approvals, steps) ==
    [name |-> name, trigger |-> triggerType, mode |-> mode,
     approvals |-> approvals, steps |-> steps]

\* The plans of the plans directory
DaemonPlans ==
    { PlanFile("nightly", "cron", "execute", "auto", PlanNightly),
      PlanFile("sketch", "cron", "execute", "per_step", PlanSketch),
      PlanFile("report", "cron", "propose", "per_step", PlanNightly),
      PlanFile("byhand", "manual", "execute", "per_step", PlanHappy) }

\* The loop over the plans: a Cron job for each plan with a cron trigger
cronJobsOf(plans) == {p.name : p \in {q \in plans : q.trigger = "cron"}}

\* The scheduler after startScheduler has returned.  The registry is the one
\* ToolRegistry.getInstance() gives: startScheduler registers no tool itself,
\* so it holds the core tools only if the starting process registered them.
InitDaemon ==
    /\ FreshRuns(Runs, {})
    /\ config \in Configs
    /\ query = NoQuery
    /\ lifecycle = <<>>
    /\ proposals = NoProposals
    /\ reg = RegIdle
    /\ files = (HelloPath :> "old")
    /\ \E tools \in {<<>>, CoreTools} :
         daemon = [DaemonOff EXCEPT !.up = TRUE, !.tools = tools,
                                    !.cronJobs = cronJobsOf(DaemonPlans)]

\* PlanRunner.propose: the audit logger is initialised and saved, no step runs
Propose(r, p) ==
    /\ planRun' = [planRun EXCEPT ![r] =
          [status |-> "proposed",
           steps |-> [i \in 1..Len(p) |->
                        [stepId |-> p[i].id, status |-> "pending",
                         error |-> NoError, verification |-> "undefined"]]]]
    /\ audit' = [audit EXCEPT ![r] = save(save(NewLogger))]
    /\ pc' = [pc EXCEPT ![r] = "done"]
    /\ UNCHANGED <<plan, ctx, idx, trace>>

\* Whether the Cron job of a plan calls its callback at a tick
cronFires(name) == name \in daemon.cronJobs

\* The callback of a Cron job: a new context and run id, then the plan run
CronFire(r) ==
    /\ daemon.up
    /\ pc[r] = "idle"
    /\ \E p \in DaemonPlans :
        /\ cronFires(p.name)
        /\ daemon' = [daemon EXCEPT
              !.fired = Append(@, [run |-> r, plan |-> p.name])]
        /\ IF p.mode = "propose"
           THEN Propose(r, p.steps)
           ELSE Launch(r, p.steps,
                       [onApproval |-> FALSE,
                        autonomous |-> p.approvals = "auto",
                        approvedPermissions |-> {}])
    /\ UNCHANGED <<config, catalogue, bus, query, lifecycle, proposals, sessionApprovals,
                   attempt, result, skill, reg, files, rollback>>

\* The SIGTERM handler: every job is stopped, then process.exit(0)
Sigterm ==
    /\ daemon.up
    /\ daemon' = [daemon EXCEPT
          !.up = FALSE, !.exited = TRUE, !.cronJobs = {},
          !.inFlight = {r \in Runs : pc[r] \notin {"idle", "done"}}]
    /\ pc' = [r \in Runs |-> "exited"]
    /\ UNCHANGED <<config, catalogue, bus, query, lifecycle, proposals, sessionApprovals,
                   plan, ctx, planRun, idx, attempt, result, skill, trace, reg,
                   files, rollback, audit>>

NextDaemon ==
    \/ Sigterm
    \/ \E r \in Runs :
        \/ CronFire(r)
        \/ DependencySkip(r)
        \/ StepStart(r)
        \/ ExecuteToolStep(r)
        \/ StepApproval(r)
        \/ StepDispatch(r)
        \/ ExecuteSkillStep(r)
        \/ SkillChat(r)
        \/ SkillValidators(r)
        \/ RecordResult(r)
        \/ HandleOutcome(r)
        \/ RunFinish(r)

SpecDaemon == InitDaemon /\ [][NextDaemon]_vars

\* ------------------------------------------------------------------------
\* Specification: the EventWatcher of the daemon
\* ------------------------------------------------------------------------
\* 'src/**/*.ts', 'package.json' and '**/*'
GlobSrcTs == <<"s", "r", "c", "/", "*", "*", "/", "*", ".", "t", "s">>
GlobPackage == <<"p", "a", "c", "k", "a", "g", "e", ".", "j", "s", "o", "n">>
GlobAll == <<"*", "*", "/", "*">>

\* The trigger.paths a plan file may declare
PathLists ==
    {<<GlobSrcTs>>, <<GlobPackage>>, <<GlobSrcTs, GlobPackage>>, <<GlobAll>>}

\* Files of the project: src/a.ts, src/lib/a.ts, package.json, src/a.md, ats
ProjectFiles ==
    { <<"s", "r", "c", "/", "a", ".", "t", "s">>,
      <<"s", "r", "c", "/", "l", "i", "b", "/", "a", ".", "t", "s">>,
      <<"p", "a", "c", "k", "a", "g", "e", ".", "j", "s", "o", "n">>,
      <<"s", "r", "c", "/", "a", ".", "m", "d">>,
      <<"a", "t", "s">> }

WatcherOpen == Len(daemon.events) < MaxWatcherEvents

\* EventWatcher.start: a watcher for each plan with an fs_change trigger
\* that declares paths
InitWatcher ==
    /\ FreshRuns({}, {})
    /\ config = ConfigDefault
    /\ query = NoQuery
    /\ lifecycle = <<>>
    /\ proposals = NoProposals
    /\ reg = RegIdle
    /\ files = (HelloPath :> "old")
    /\ \E paths \in PathLists :
         daemon = [DaemonOff EXCEPT
             !.up = TRUE,
             !.watchers = {[name |-> "onsave",
                            trigger |-> [type |-> "fs_change", paths |-> paths]]}]

\* The handler of 'change' and of 'add': onTrigger is called when
\* evaluateTrigger says so
Handle(w, kind, path) ==
    LET event == [type |-> "fs_change", path |-> path] IN
    /\ WatcherOpen
    /\ watched(path, w.trigger.paths)
    /\ daemon' = [daemon EXCEPT !.events = Append(@,
          [plan |-> w.name, paths |-> w.trigger.paths, kind |-> kind,
           path |-> path, onTrigger |-> evaluateTrigger(w.trigger, event)])]
    /\ UNCHANGED <<config, catalogue, bus, query, lifecycle, proposals, sessionApprovals,
                   pc, plan, ctx, planRun, idx, attempt, result, skill, trace,
                   reg, files, rollback, audit>>

WatcherChange ==
    \E w \in daemon.watchers, path \in ProjectFiles : Handle(w, "change", path)

WatcherAdd ==
    \E w \in daemon.watchers, path \in ProjectFiles : Handle(w, "add", path)

\* EventWatcher.stop
WatcherStop ==
    /\ daemon.watchers # {}
    /\ daemon' = [daemon EXCEPT !.watchers = {}]
    /\ UNCHANGED <<config, catalogue, bus, query, lifecycle, proposals, sessionApprovals,
                   pc, plan, ctx, planRun, idx, attempt, result, skill, trace,
                   reg, files, rollback, audit>>

NextWatcher == WatcherChange \/ WatcherAdd \/ WatcherStop

SpecWatcher == InitWatcher /\ [][NextWatcher]_vars

\* ------------------------------------------------------------------------
\* Specification: SkillLifecycle called on one loaded skill
\* ------------------------------------------------------------------------
LifecycleOpen == Len(lifecycle.calls) < MaxTransitions

InitLifecycle ==
    /\ FreshRuns({}, {})
    /\ config = ConfigDefault
    /\ query = NoQuery
    /\ daemon = DaemonOff
    /\ proposals = NoProposals
    /\ reg = RegIdle
    /\ files = (HelloPath :> "old")
    /\ \E state \in SkillStates \cup {"undefined"},
          file \in SkillStates \cup {"undefined", "absent"} :
         lifecycle = [skill |-> [state |-> state, file |-> file],
                      calls |-> <<>>]

\* lifecycle.transition(skill, newState)
LifecycleTransition ==
    /\ LifecycleOpen
    /\ \E newState \in SkillStates :
        LET res == transition(lifecycle.skill, newState) IN
        lifecycle' = [skill |-> [state |-> res.state, file |-> res.file],
                      calls |-> Append(lifecycle.calls,
                                       [from |-> lifecycle.skill,
                                        to |-> newState, result |-> res])]
    /\ UNCHANGED <<config, catalogue, bus, query, daemon, proposals, sessionApprovals,
                   pc, plan, ctx, planRun, idx, attempt, result, skill, trace,
                   reg, files, rollback, audit>>

NextLifecycle == LifecycleTransition

SpecLifecycle == InitLifecycle /\ [][NextLifecycle]_vars

\* ------------------------------------------------------------------------
\* Specification: proposals made, approved and executed from the CLI
\* ('plan propose', 'plan approve', 'plan execute'); a run id is a run
\* ------------------------------------------------------------------------
ProposalsOpen == Len(proposals.calls) < MaxProposalCalls

InitProposals ==
    /\ FreshRuns(Runs, {PlanHappy})
    /\ config \in Configs
    /\ query = NoQuery
    /\ daemon = DaemonOff
    /\ lifecycle = <<>>
    /\ proposals = NoProposals
    /\ reg = RegIdle
    /\ files \in InitialFiles

Called(op, r, returned) ==
    Append(proposals.calls,
           [op |-> op, run |-> r, before |-> proposals.stored[r],
            returned |-> returned])

\* 'plan propose': createProposal writes proposal.json under a new run id
ProposalCreate(r) ==
    /\ ProposalsOpen
    /\ proposals.stored[r] = "none"
    /\ proposals' = [stored |-> [proposals.stored EXCEPT ![r] = "proposed"],
                     calls |-> Called("createProposal", r, TRUE)]
    /\ UNCHANGED <<config, catalogue, bus, query, daemon, lifecycle, sessionApprovals, pc,
                   plan, ctx, planRun, idx, attempt, result, skill, trace, reg,
                   files, rollback, audit>>

\* 'plan approve <runId>'
ProposalApprove(r) ==
    /\ ProposalsOpen
    /\ proposals' = [stored |-> [proposals.stored EXCEPT
                                    ![r] = approve(proposals.stored[r]).status],
                     calls |-> Called("approve", r,
                                      approve(proposals.stored[r]).returned)]
    /\ UNCHANGED <<config, catalogue, bus, query, daemon, lifecycle, sessionApprovals, pc,
                   plan, ctx, planRun, idx, attempt, result, skill, trace, reg,
                   files, rollback, audit>>

\* 'plan execute <runId>': exits, or runs the plan of the proposal with the
\* CLI's context.  The command can be given again once the process of an
\* earlier 'plan execute' of the run id is over.
ProposalExecute(r) ==
    /\ ProposalsOpen
    /\ pc[r] \in {"idle", "done"}
    /\ proposals' = [proposals EXCEPT
          !.calls = Called("execute", r, executes(proposals.stored[r]))]
    /\ IF executes(proposals.stored[r])
       THEN \E p \in catalogue :
              Launch(r, p, [onApproval |-> TRUE, autonomous |-> FALSE,
                            approvedPermissions |-> {}])
       ELSE UNCHANGED <<pc, plan, ctx, planRun, idx, trace, audit>>
    /\ UNCHANGED <<config, catalogue, bus, query, daemon, lifecycle, sessionApprovals,
                   attempt, result, skill, reg, files, rollback>>

NextProposals ==
    \E r \in Runs :
        \/ ProposalCreate(r)
        \/ ProposalApprove(r)
        \/ ProposalExecute(r)
        \/ StepStart(r)
        \/ ExecuteToolStep(r)
        \/ StepApproval(r)
        \/ StepDispatch(r)
        \/ RecordResult(r)
        \/ VerifyStep(r)
        \/ HandleOutcome(r)
        \/ RunFinish(r)

SpecProposals == InitProposals /\ [][NextProposals]_vars

\* ------------------------------------------------------------------------
\* Specification: one PolicyEngine called on its own, under arbitrary rules
\* ------------------------------------------------------------------------
ApprovalActions == {"allow", "deny", "confirm"}

RulePermissions == {PermFs, PermFsRead}

PolicyRules == {Rule(p, a) : p \in RulePermissions, a \in ApprovalActions}

\* config.policy.rules: no rule, one rule, or two rules in either order,
\* two rules on the same permission included
RuleLists ==
    {<<>>} \cup {<<x>> : x \in PolicyRules}
           \cup {<<x, y>> : x \in PolicyRules, y \in PolicyRules}

\* The permissions asked about, with and without a parent category
AskedPermissions == {PermFs, PermFsRead, PermFsWrite, PermExec, PermSecrets}

\* The action descriptors asked about: a tool's, as the engine builds it
\* (risk level medium) and with risk level low
AskedActions ==
    {[ActionOf(CoreTools, t, NoArgs) EXCEPT !.riskLevel = risk] :
        t \in {FsRead, Vault}, risk \in {"low", "medium"}}

InitPolicy ==
    /\ FreshRuns({}, {})
    /\ \E rules \in RuleLists, dflt \in ApprovalActions :
         config = [ConfigDefault EXCEPT !.policy.rules = rules,
                                        !.policy.defaultApproval = dflt]
    /\ query = NoQuery
    /\ daemon = DaemonOff
    /\ lifecycle = <<>>
    /\ proposals = NoProposals
    /\ reg = RegIdle
    /\ files = (HelloPath :> "old")

\* findRule(permission)
PolicyFindRule ==
    /\ \E permission \in AskedPermissions :
         query' = [op |-> "findRule", permission |-> permission,
                   result |-> findRule(config, permission)]
    /\ UNCHANGED <<config, catalogue, bus, daemon, lifecycle, proposals, sessionApprovals,
                   pc, plan, ctx, planRun, idx, attempt, result, skill, trace,
                   reg, files, rollback, audit>>

\* checkPermission(action, ctx)
PolicyCheck ==
    /\ \E action \in AskedActions, c \in Contexts :
         query' = [op |-> "checkPermission", action |-> action, ctx |-> c,
                   result |-> checkPermission(config, sessionApprovals, action, c)]
    /\ UNCHANGED <<config, catalogue, bus, daemon, lifecycle, proposals, sessionApprovals,
                   pc, plan, ctx, planRun, idx, attempt, result, skill, trace,
                   reg, files, rollback, audit>>

\* requestApproval(action, ctx), after a checkPermission of the same action
PolicyRequest ==
    /\ \E action \in AskedActions, c \in Contexts, reply \in BOOLEAN :
         LET res == requestApproval(sessionApprovals, action, c, reply) IN
         /\ query' = [op |-> "requestApproval", action |-> action, ctx |-> c,
                      reply |-> reply, before |-> sessionApprovals,
                      checked |-> checkPermission(config, sessionApprovals,
                                                  action, c),
                      result |-> res]
         /\ sessionApprovals' = res.approvals
    /\ UNCHANGED <<config, catalogue, bus, daemon, lifecycle, proposals, pc, plan, ctx,
                   planRun, idx, attempt, result, skill, trace, reg, files,
                   rollback, audit>>

\* clearSessionApprovals()
PolicyClear ==
    /\ sessionApprovals # {}
    /\ sessionApprovals' = {}
    /\ query' = [op |-> "clearSessionApprovals"]
    /\ UNCHANGED <<config, catalogue, bus, daemon, lifecycle, proposals, pc, plan, ctx,
                   planRun, idx, attempt, result, skill, trace, reg, files,
                   rollback, audit>>

NextPolicy == PolicyFindRule \/ PolicyCheck \/ PolicyRequest \/ PolicyClear

SpecPolicy == InitPolicy /\ [][NextPolicy]_vars

\* ------------------------------------------------------------------------
\* Specification: one AuditLogger called on its own
\* ------------------------------------------------------------------------
Words == {"old", ApiKey, ShortToken}

AuditOpen ==
    Len(audit[1].runLog.steps) + Len(audit[1].runLog.diffs) < MaxAuditEntries

InitAudit ==
    /\ Fresh({}, {})
    /\ config = ConfigDefault
    /\ reg = RegIdle
    /\ files = (HelloPath :> "old")

AuditAddStep ==
    /\ AuditOpen
    /\ \E id \in TrackerSteps, input \in Words :
        audit' = [audit EXCEPT ![1] = addStep(@, StepLog(id, "running", input))]
    /\ UNCHANGED <<config, catalogue, bus, query, daemon, lifecycle, proposals, sessionApprovals, pc, plan, ctx, planRun,
                   idx, attempt, result, skill, trace, reg, files, rollback>>

AuditUpdateStep ==
    /\ \E id \in TrackerSteps, status \in {"completed", "failed"} :
        /\ audit[1] # updateStep(audit[1], id, status)
        /\ audit' = [audit EXCEPT ![1] = updateStep(@, id, status)]
    /\ UNCHANGED <<config, catalogue, bus, query, daemon, lifecycle, proposals, sessionApprovals, pc, plan, ctx, planRun,
                   idx, attempt, result, skill, trace, reg, files, rollback>>

AuditAddDiff ==
    /\ AuditOpen
    /\ \E id \in TrackerSteps, before \in Words, after \in Words :
        /\ before # after
        /\ audit' = [audit EXCEPT ![1] =
              addDiff(@, [file |-> HelloPath, before |-> before,
                          after |-> after, stepId |-> id])]
    /\ UNCHANGED <<config, catalogue, bus, query, daemon, lifecycle, proposals, sessionApprovals, pc, plan, ctx, planRun,
                   idx, attempt, result, skill, trace, reg, files, rollback>>

\* AuditLogger.init
AuditSave ==
    /\ audit[1] # save(audit[1])
    /\ audit' = [audit EXCEPT ![1] = save(@)]
    /\ UNCHANGED <<config, catalogue, bus, query, daemon, lifecycle, proposals, sessionApprovals, pc, plan, ctx, planRun,
                   idx, attempt, result, skill, trace, reg, files, rollback>>

AuditComplete ==
    /\ audit[1].runLog.status = "running"
    /\ \E status \in {"completed", "failed"} :
        audit' = [audit EXCEPT ![1] = complete(@, status)]
    /\ UNCHANGED <<config, catalogue, bus, query, daemon, lifecycle, proposals, sessionApprovals, pc, plan, ctx, planRun,
                   idx, attempt, result, skill, trace, reg, files, rollback>>

NextAudit ==
    \/ AuditAddStep
    \/ AuditUpdateStep
    \/ AuditAddDiff
    \/ AuditSave
    \/ AuditComplete

SpecAudit == InitAudit /\ [][NextAudit]_vars

\* ------------------------------------------------------------------------
\* Specification: the runs of one process (MCP server, daemon), each with
\* its AuditLogger, emitting on the process's auditEmitter
\* ------------------------------------------------------------------------
BusOpen == Len(bus.emitted) < MaxBusEvents

InitBus ==
    /\ Fresh(Runs, {})
    /\ config = ConfigDefault
    /\ reg = RegIdle
    /\ files = (HelloPath :> "old")

\* Run r emits an event: every listener is called
Published(r, type) ==
    /\ bus' = [bus EXCEPT !.emitted = Append(@, AuditEvent(type, r))]
    /\ audit' = emit(bus, audit, AuditEvent(type, r))

\* PlanRunner.run: new AuditLogger(runId, plan.name)
BusConstruct(r) ==
    /\ pc[r] = "idle"
    /\ pc' = [pc EXCEPT ![r] = "constructed"]
    /\ audit' = [audit EXCEPT ![r] = NewLogger]
    /\ bus' = onAudit(bus, r)
    /\ UNCHANGED <<config, catalogue, query, daemon, lifecycle, proposals, sessionApprovals, plan, ctx, planRun,
                   idx, attempt, result, skill, trace, reg, files, rollback>>

\* PlanRunner.run: after auditLogger.init(), run_start
BusRunStart(r) ==
    /\ pc[r] = "constructed"
    /\ BusOpen
    /\ pc' = [pc EXCEPT ![r] = "loop"]
    /\ Published(r, "run_start")
    /\ UNCHANGED <<config, catalogue, query, daemon, lifecycle, proposals, sessionApprovals, plan, ctx, planRun,
                   idx, attempt, result, skill, trace, reg, files, rollback>>

\* PlanRunner.run: an event of a step
BusStepEvent(r) ==
    /\ pc[r] = "loop"
    /\ BusOpen
    /\ \E type \in {"step_start", "step_complete"} : Published(r, type)
    /\ UNCHANGED <<config, catalogue, query, daemon, lifecycle, proposals, sessionApprovals, pc, plan, ctx, planRun,
                   idx, attempt, result, skill, trace, reg, files, rollback>>

\* PlanRunner.run: run_complete, then auditLogger.complete(status)
BusRunComplete(r) ==
    /\ pc[r] = "loop"
    /\ BusOpen
    /\ pc' = [pc EXCEPT ![r] = "done"]
    /\ bus' = [bus EXCEPT !.emitted = Append(@, AuditEvent("run_complete", r))]
    /\ audit' = [emit(bus, audit, AuditEvent("run_complete", r))
                     EXCEPT ![r] = complete(@, "completed")]
    /\ UNCHANGED <<config, catalogue, query, daemon, lifecycle, proposals, sessionApprovals, plan, ctx, planRun,
                   idx, attempt, result, skill, trace, reg, files, rollback>>

NextBus ==
    \E r \in Runs :
        \/ BusConstruct(r)
        \/ BusRunStart(r)
        \/ BusStepEvent(r)
        \/ BusRunComplete(r)

SpecBus == InitBus /\ [][NextBus]_vars

\* ------------------------------------------------------------------------
\* Specification: ExecutionEngine.verify on arbitrary clauses
\* ------------------------------------------------------------------------
VerifyConfigs ==
    [command : BOOLEAN, exitCode : {<<>>, <<0>>, <<1>>}, contains : BOOLEAN,
     fileExists : BOOLEAN]

CheckRuns == [exit : {0, 1, 2}, outputIncludes : BOOLEAN, fileThere : BOOLEAN]

InitVerify ==
    /\ Fresh({}, {})
    /\ config = ConfigDefault
    /\ reg = RegIdle
    /\ files = (HelloPath :> "old")

\* engine.verify(step.verify, ctx)
EngineVerify ==
    /\ \E verifyConfig \in VerifyConfigs, ran \in CheckRuns :
         /\ (verifyConfig.contains \/ verifyConfig.exitCode # <<>>)
               => verifyConfig.command
         /\ query' = [op |-> "verify", verifyConfig |-> verifyConfig,
                      ran |-> ran, result |-> verify(verifyConfig, ran)]
    /\ UNCHANGED <<config, catalogue, bus, daemon, lifecycle, proposals, sessionApprovals,
                   pc, plan, ctx, planRun, idx, attempt, result, skill, trace,
                   reg, files, rollback, audit>>

NextVerify == EngineVerify

SpecVerify == InitVerify /\ [][NextVerify]_vars

\* ------------------------------------------------------------------------
\* Specification: ScopeChecker.checkFilesystemScope on arbitrary paths and
\* allow-lists
\* ------------------------------------------------------------------------
ScopeSegments == {"src", "hello", "..", "..rc", ""}

\* Relative and absolute paths of one or two segments
ScopePaths ==
    {<<a>> : a \in ScopeSegments \ {""}}
    \cup {<<a, b>> : a \in ScopeSegments, b \in ScopeSegments \ {""}}

ScopePatterns ==
    {<<"**", "*">>, <<"*">>, <<"src", "**">>, <<"src", "*">>, <<"hello">>,
     <<"[">>, <<"src", "(">>}

\* Allow-lists: empty, one pattern, or a pattern behind one that is
\* unparseable
ScopeAllowlists ==
    {<<>>} \cup {<<p>> : p \in ScopePatterns}
           \cup {<< <<"[">>, p >> : p \in ScopePatterns}

InitScope ==
    /\ Fresh({}, {})
    /\ config = ConfigDefault
    /\ reg = RegIdle
    /\ files = (HelloPath :> "old")

\* scopeChecker.checkFilesystemScope(filePath) under an allow-list
ScopeCheckFilesystem ==
    /\ \E filePath \in ScopePaths, allowlist \in ScopeAllowlists :
         query' = [op |-> "checkFilesystemScope", filePath |-> filePath,
                   allowlist |-> allowlist,
                   result |-> checkFilesystemScope(
                       [policy |-> [filesystemAllowlist |-> allowlist]],
                       filePath)]
    /\ UNCHANGED <<config, catalogue, bus, daemon, lifecycle, proposals, sessionApprovals,
                   pc, plan, ctx, planRun, idx, attempt, result, skill, trace,
                   reg, files, rollback, audit>>

NextScope == ScopeCheckFilesystem

SpecScope == InitScope /\ [][NextScope]_vars

\* ------------------------------------------------------------------------
\* Properties
\* ------------------------------------------------------------------------
Events(r) == DOMAIN trace[r]

\* The events of run r of the given kind about step id
EventsOf(r, kind, id) ==
    {i \in Events(r) : trace[r][i].kind = kind /\ trace[r][i].step = id}

Finished(r) == pc[r] = "done"

\* The tool call run r is about to dispatch
Dispatching(r) ==
    IF pc[r] = "dispatch"
    THEN [name |-> CurStep(r).tool, args |-> CurStep(r).args]
    ELSE Head(skill[r].pending)

AtDispatch(r) == pc[r] \in {"dispatch", "tc_dispatch"}

\* perm is cleared for tool: allow by the rules, or approved
Cleared(r, tool, perm) ==
    \/ findRule(config, perm) = "allow"
    \/ perm \in ctx[r].approvedPermissions
    \/ <<tool, perm>> \in sessionApprovals

\* C1: a plan tool step or a tool call of a prompt-driven skill reaches the
\* Tool Registry only when every permission the tool requires is allowed by
\* the rules or approved (context, session approvals, or an approval just
\* granted); after a denied check or a refused approval nothing is
\* dispatched and the tool's operation is not invoked.
C1_DispatchIsGated ==
    \A r \in Runs :
        /\ AtDispatch(r) =>
              \A perm \in Range(CoreTools[Dispatching(r).name].permissions) :
                  Cleared(r, Dispatching(r).name, perm)
        /\ \A i \in Events(r) :
              /\ trace[r][i].kind = "dispatch" =>
                    /\ i > 1
                    /\ trace[r][i - 1].tool = trace[r][i].tool
                    /\ \/ /\ trace[r][i - 1].kind = "check"
                          /\ trace[r][i - 1].info = "allowed"
                       \/ trace[r][i - 1].kind = "approval_granted"
              /\ trace[r][i].kind = "op" =>
                    i > 1 /\ trace[r][i - 1].kind = "dispatch"
              /\ trace[r][i].kind = "approval_granted" =>
                    /\ i > 2
                    /\ trace[r][i - 1].kind = "approver"
                    /\ trace[r][i - 1].info = "yes"
                    /\ trace[r][i - 2].kind = "check"
                    /\ trace[r][i - 2].info = "needs_approval"

\* C1 witness: a tool ran after the user approved it, in a skill's loop
C1_Witness ==
    \E r \in Runs : \E i \in Events(r) :
        /\ i > 1
        /\ trace[r][i].kind = "op"
        /\ trace[r][i - 1].kind = "dispatch"
        /\ i > 2 /\ trace[r][i - 2].kind = "approval_granted"
        /\ plan[r] = PlanSkill
        /\ trace[r][i].step = "A"

\* The last executeStep of run r for step id, 0 when there is none
LastExecute(r, id) ==
    IF EventsOf(r, "executeStep", id) = {} THEN 0
    ELSE CHOOSE i \in EventsOf(r, "executeStep", id) :
             \A j \in EventsOf(r, "executeStep", id) : j <= i

\* C2 (as claimed): when a run is over, every completed step that has a
\* verification clause had its verification run after its last executeStep,
\* and it passed.
C2_CompletedMeansVerified ==
    \A r \in Runs : Finished(r) =>
        \A i \in DOMAIN plan[r] :
            (planRun[r].steps[i].status = "completed" /\ plan[r][i].verify) =>
                /\ planRun[r].steps[i].verification = "passed"
                /\ \E v \in EventsOf(r, "verify", plan[r][i].id) :
                       /\ trace[r][v].info = "passed"
                       /\ v > LastExecute(r, plan[r][i].id)

\* The dependencies of step i of run r that are unmet at its turn: the ids
\* with no completed step before i
UnmetAtTurn(r, i) ==
    {d \in Range(plan[r][i].dependsOn) :
        ~\E j \in 1..(i - 1) :
            plan[r][j].id = d /\ planRun[r].steps[j].status = "completed"}

\* The turn of step i of run r has come
TurnCame(r, i) == i < idx[r] \/ (i = idx[r] /\ pc[r] # "loop")

\* C3: a step with an unmet dependency at its turn is skipped, its error
\* lists the unmet dependency ids, and nothing was done for it: no
\* step_start, no executeStep, no dispatch; a step that was started had
\* every dependency completed.
C3_UnmetDependencySkips ==
    \A r \in Runs : \A i \in DOMAIN plan[r] :
        LET sr == planRun[r].steps[i]
            id == plan[r][i].id
        IN
        /\ (TurnCame(r, i) /\ UnmetAtTurn(r, i) # {}) =>
              /\ sr.status = "skipped"
              /\ sr.error.kind = "unmet_dependencies"
              /\ sr.error.deps =
                     SelectSeq(plan[r][i].dependsOn,
                               LAMBDA d : d \in UnmetAtTurn(r, i))
              /\ \A e \in Events(r) : trace[r][e].step # id
        /\ (sr.status = "skipped") => (TurnCame(r, i) /\ UnmetAtTurn(r, i) # {})
        /\ (\E e \in Events(r) : trace[r][e].step = id) => UnmetAtTurn(r, i) = {}

\* C3 witness: B was skipped for A, then C for B
C3_Witness ==
    \E r \in Runs :
        /\ plan[r] = PlanChain
        /\ planRun[r].steps[2].status = "skipped"
        /\ planRun[r].steps[2].error.deps = <<"A">>
        /\ planRun[r].steps[3].status = "skipped"
        /\ planRun[r].steps[3].error.deps = <<"B">>

\* The check that decided dispatch i of run r
CheckOf(r, i) ==
    CHOOSE c \in Events(r) :
        /\ c < i
        /\ trace[r][c].kind = "check"
        /\ \A d \in Events(r) : (d < i /\ trace[r][d].kind = "check") => d <= c

\* tool was granted an approval in run r before event k
GrantedBefore(r, tool, k) ==
    \E g \in Events(r) :
        g < k /\ trace[r][g].kind = "approval_granted" /\ trace[r][g].tool = tool

\* C4 (as claimed): a tool that requires a permission the policy denies is
\* never dispatched unless that permission was approved before the check,
\* wherever the permission stands in the tool's list.
C4_DenyAlwaysRejects ==
    \A r \in Runs : \A i \in Events(r) :
        (/\ trace[r][i].kind = "dispatch"
         /\ \E perm \in Range(CoreTools[trace[r][i].tool].permissions) :
                /\ findRule(config, perm) = "deny"
                /\ perm \notin ctx[r].approvedPermissions)
        => GrantedBefore(r, trace[r][i].tool, CheckOf(r, i))

\* C5 (as claimed): a call that fails the scope check is never dispatched.
C5_OutOfScopeNotDispatched ==
    \A r \in Runs :
        AtDispatch(r) =>
            checkScope(config, Dispatching(r).name, Dispatching(r).args)

\* name matches pattern, in the words of the enable-list rule: the pattern
\* equals the name, or ends in ".*" and its text up to and including the dot
\* is a prefix of the name
EnableRule(name, pattern) ==
    \/ pattern = name
    \/ /\ Len(pattern) >= 2
       /\ pattern[Len(pattern)] = "*"
       /\ pattern[Len(pattern) - 1] = "."
       /\ Len(name) >= Len(pattern) - 1
       /\ \A k \in 1..(Len(pattern) - 1) : name[k] = pattern[k]

\* C6: execute invokes the operation only for a registered name, a valid
\* input and a name some enabled pattern matches; otherwise it fails without
\* invoking it, and the checks come in the order not-found, invalid-input,
\* disabled.
C6_ExecuteChecks ==
    reg.called =>
        LET enabledByRule ==
                \E k \in DOMAIN reg.enabled : EnableRule(reg.name, reg.enabled[k])
        IN
        /\ reg.result.invoked <=>
              (reg.registered /\ reg.inputValid /\ enabledByRule)
        /\ ~reg.result.invoked => ~reg.result.success
        /\ ~reg.registered => reg.result.error = "not_found"
        /\ (reg.registered /\ ~reg.inputValid) =>
              reg.result.error = "invalid_input"
        /\ (reg.registered /\ reg.inputValid /\ ~enabledByRule) =>
              reg.result.error = "disabled"

\* C6 witness: a prefix pattern, behind one that is no match, let a call
\* through
C6_Witness ==
    /\ reg.called
    /\ reg.result.invoked
    /\ reg.enabled = << CmdRun, <<"f", ".", "*">> >>
    /\ reg.name = <<"f", ".", "s">>

\* The events of run r of the given kind about tool
ToolEvents(r, kind, tool) ==
    {i \in Events(r) : trace[r][i].kind = kind /\ trace[r][i].tool = tool}

\* The rules alone do not let tool through for run r
NeedsClearance(r, tool) ==
    \E perm \in Range(CoreTools[tool].permissions) :
        findRule(config, perm) # "allow" /\ perm \notin ctx[r].approvedPermissions

\* The approver said yes to tool in run r
SaidYes(r, tool) ==
    {i \in ToolEvents(r, "approver", tool) : trace[r][i].info = "yes"}

\* C7: once the approver has granted a tool, every later check of the tool
\* in the run is allowed and the approver is not asked again: it says yes
\* at most once per tool, exactly once when the tool's first check needed
\* approval and the tool was dispatched; two steps calling the same tool
\* both complete when the tool succeeds.
C7_ApproverAskedOnce ==
    \A r \in Runs : \A tool \in DOMAIN CoreTools :
        /\ Cardinality(SaidYes(r, tool)) <= 1
        /\ \A g \in ToolEvents(r, "approval_granted", tool) :
               \A c \in ToolEvents(r, "check", tool) :
                   c > g => trace[r][c].info = "allowed"
        /\ ToolEvents(r, "approval_granted", tool) # {} =>
               checkPermission(config, sessionApprovals,
                               ActionOf(CoreTools, tool, NoArgs), ctx[r]).allowed
        /\ (/\ ToolEvents(r, "dispatch", tool) # {}
            /\ NeedsClearance(r, tool)) =>
               Cardinality(SaidYes(r, tool)) = 1
        /\ (/\ Finished(r)
            /\ plan[r] = PlanTwice
            /\ Cardinality({i \in ToolEvents(r, "tool_call", tool) :
                               trace[r][i].info = "ok"}) = 2) =>
               /\ planRun[r].steps[1].status = "completed"
               /\ planRun[r].steps[2].status = "completed"

\* C7 witness: both steps of the plan completed on a single yes
C7_Witness ==
    \E r \in Runs :
        /\ Finished(r)
        /\ plan[r] = PlanTwice
        /\ planRun[r].steps[1].status = "completed"
        /\ planRun[r].steps[2].status = "completed"
        /\ Cardinality(ToolEvents(r, "approver", FsWrite)) = 1
        /\ Cardinality(ToolEvents(r, "dispatch", FsWrite)) = 2

\* C8 (as claimed): a check of a run lets a tool through that the rules
\* alone do not allow only if that run itself was granted the tool before.
C8_ApprovalsArePerRun ==
    \A r \in Runs : \A c \in Events(r) :
        (/\ trace[r][c].kind = "check"
         /\ trace[r][c].info = "allowed"
         /\ NeedsClearance(r, trace[r][c].tool))
        => GrantedBefore(r, trace[r][c].tool, c)

\* Step j of run r depends on step i, directly or through at most n steps
RECURSIVE DependsOn(_, _, _, _)
DependsOn(r, j, i, n) ==
    \/ plan[r][i].id \in Range(plan[r][j].dependsOn)
    \/ /\ n > 0
       /\ \E k \in DOMAIN plan[r] :
              /\ plan[r][k].id \in Range(plan[r][j].dependsOn)
              /\ DependsOn(r, k, i, n - 1)

\* C9 (as claimed): when a run is over and one of its steps ended failed
\* under onFailure: skip, every step depending on it whose turn came is
\* skipped for an unmet dependency, and the run's status is failed.
C9_SkipPolicyFailsRun ==
    \A r \in Runs : Finished(r) =>
        \A i \in DOMAIN plan[r] :
            (/\ planRun[r].steps[i].status = "failed"
             /\ failureAction(plan[r][i]) = "skip") =>
                /\ planRun[r].status = "failed"
                /\ \A j \in DOMAIN plan[r] :
                      (TurnCame(r, j) /\ DependsOn(r, j, i, Len(plan[r]))) =>
                          /\ planRun[r].steps[j].status = "skipped"
                          /\ planRun[r].steps[j].error.kind = "unmet_dependencies"

\* The returns of executeStep for step id in run r, in order
Returns(r, id) ==
    SelectSeq(trace[r], LAMBDA e : e.kind = "return" /\ e.step = id)

\* The turn of step i of run r is over
StepOver(r, i) == i < idx[r] \/ (i = idx[r] /\ pc[r] \in {"finish", "done"})

\* C10: for a step with onFailure: retry and retries = n > 0 whose first
\* attempt failed, executeStep is called again at most n times and never
\* after a retry that succeeded; the step ends completed exactly when some
\* retry succeeded; every dispatch of a tool step emits exactly one
\* tool_call event, right after it.
C10_RetryBounded ==
    \A r \in Runs : \A i \in DOMAIN plan[r] :
        LET step == plan[r][i]
            rets == Returns(r, step.id)
            calls == EventsOf(r, "executeStep", step.id)
        IN
        /\ (failureAction(step) = "retry" /\ step.retries > 0) =>
              /\ Cardinality(calls) <= 1 + step.retries
              /\ \A k \in DOMAIN rets :
                    (k >= 2 /\ rets[k].info = "ok") =>
                        k = Len(rets) /\ Cardinality(calls) = k
              /\ (StepOver(r, i) /\ Len(rets) >= 2) =>
                    (planRun[r].steps[i].status = "completed"
                       <=> \E k \in 2..Len(rets) : rets[k].info = "ok")
              /\ (StepOver(r, i) /\ planRun[r].steps[i].status = "failed") =>
                    Cardinality(calls) = 1 + step.retries
        /\ Cardinality(EventsOf(r, "tool_call", step.id))
               <= Cardinality(EventsOf(r, "dispatch", step.id))
        /\ \A d \in EventsOf(r, "dispatch", step.id) :
               \E t \in EventsOf(r, "tool_call", step.id) :
                   /\ t \in {d + 1, d + 2}
                   /\ \A e \in (d + 1)..(t - 1) : trace[r][e].kind = "op"

\* C10 witness: the tool failed once, then succeeded on the first of two
\* allowed retries
C10_Witness ==
    \E r \in Runs :
        /\ plan[r] = PlanRetry
        /\ StepOver(r, 1)
        /\ planRun[r].steps[1].status = "completed"
        /\ Cardinality(EventsOf(r, "op", "A")) = 2
        /\ Cardinality(EventsOf(r, "tool_call", "A")) = 2
        /\ Returns(r, "A")[1].info = "failed"

\* Run r has an event of one of the kinds about step id
Touched(r, kinds, id) ==
    \E e \in Events(r) : trace[r][e].kind \in kinds /\ trace[r][e].step = id

\* C11: once a step has ended failed under onFailure: abort (stated, or
\* absent), the loop is over: every later step of the plan stays pending
\* with no step_start, no executeStep and no dispatch, and the run's status
\* is failed, also in its run_complete event.
C11_AbortStopsLoop ==
    \A r \in Runs : \A i \in DOMAIN plan[r] :
        (/\ StepOver(r, i)
         /\ planRun[r].steps[i].status = "failed"
         /\ plan[r][i].onFailure \in {"abort", "undefined"}) =>
            /\ pc[r] \in {"finish", "done"}
            /\ planRun[r].status = "failed"
            /\ \A j \in DOMAIN plan[r] : j > i =>
                  /\ planRun[r].steps[j].status = "pending"
                  /\ ~Touched(r, {"step_start", "executeStep", "dispatch", "op"},
                              plan[r][j].id)
            /\ \A e \in Events(r) :
                  trace[r][e].kind = "run_complete" => trace[r][e].info = "failed"

\* C11 witness: the second step failed under abort, the third was left alone
C11_Witness ==
    \E r \in Runs :
        /\ Finished(r)
        /\ plan[r] = PlanOrder
        /\ planRun[r].steps[2].status = "failed"
        /\ planRun[r].steps[3].status = "pending"
        /\ planRun[r].status = "failed"

\* The skill named by the step with this id in the plan of run r
SkillOf(r, id) ==
    LET i == CHOOSE i \in DOMAIN plan[r] : plan[r][i].id = id
    IN plan[r][i].skill

\* Step id of run r runs a prompt-driven skill
PromptStep(r, id) ==
    /\ SkillOf(r, id) \in DOMAIN Skills
    /\ Skills[SkillOf(r, id)].prompt

\* C16 (as claimed): in a prompt-driven skill only tools of the skill's
\* declared allow-list are dispatched to the registry.
C16_OnlyDeclaredToolsDispatched ==
    \A r \in Runs : \A e \in Events(r) :
        (/\ trace[r][e].kind = "dispatch"
         /\ PromptStep(r, trace[r][e].step))
        => trace[r][e].tool \in Skills[SkillOf(r, trace[r][e].step)].tools

\* The model calls made for step id of run r since its executeStep at e
ChatsSince(r, id, e) ==
    {c \in EventsOf(r, "chat", id) :
        /\ c > e
        /\ \A e2 \in EventsOf(r, "executeStep", id) : e2 > e => c < e2}

\* Run r is inside the agentic loop of a prompt-driven skill
InLoop(r) == pc[r] \in {"chat", "toolcall", "tc_approval", "tc_dispatch"}

C20_ExhaustionFails ==
    \A r \in Runs : \A e \in Events(r) :
        LET id == trace[r][e].step IN
        (/\ trace[r][e].kind = "return"
         /\ PromptStep(r, id)
         /\ \/ \E c \in EventsOf(r, "chat", id) : trace[r][c].info = "throw"
            \/ Cardinality({c \in EventsOf(r, "chat", id) :
                               trace[r][c].info = "calls"}) = maxIterations)
        => trace[r][e].info = "failed"

\* The calls of the given kind made on the tracker for (stepId, file)
TrackerCalls(op, stepId, file) ==
    {k \in DOMAIN rollback.log :
        /\ rollback.log[k].op = op
        /\ rollback.log[k].stepId = stepId
        /\ rollback.log[k].file = file}

\* The content captureBeforeState reads when the file has this content
AsRead(content) == IF content = "absent" THEN "" ELSE content

\* C12 (as claimed): the pre-content the tracker holds for (step, file) is
\* the one read by the first captureBeforeState(step, file), however many
\* captures followed, and it is what rollbackStep(step) writes back.
C12_FirstCaptureWins ==
    \A k \in DOMAIN rollback.log :
        LET s == rollback.log[k].stepId
            f == rollback.log[k].file
        IN
        (/\ rollback.log[k].op = "capture_before"
         /\ \A j \in TrackerCalls("capture_before", s, f) : k <= j)
        => /\ mapGet(mapGet(rollback.beforeStates, s), f)
                 = AsRead(rollback.log[k].actual)
           /\ rollbackStep(rollback, files, s)[f] = AsRead(rollback.log[k].actual)

\* The tracker was called with exactly these operations, in this order
TrackerDid(ops) ==
    /\ Len(rollback.log) = Len(ops)
    /\ \A k \in DOMAIN ops : rollback.log[k].op = ops[k]

\* C13 (as claimed): after captureBeforeState; the step's write;
\* captureAfterState; rollbackStep, all of one step on one file, the file is
\* what it was before the step, whatever that was.
C13_RollbackRestores ==
    (/\ TrackerDid(<<"capture_before", "mutate", "capture_after",
                    "rollback_step">>)
     /\ rollback.log[1].stepId = rollback.log[3].stepId
     /\ rollback.log[1].stepId = rollback.log[4].stepId)
    => files[HelloPath] = rollback.log[1].actual

\* C14 (as claimed): when a run is over, every file the Rollback Tracker
\* captured a diff for has a diff entry in the run log on disk, and the
\* summary's filesChanged counts the changed files.
C14_RunLogHoldsDiffs ==
    \A r \in Runs : Finished(r) =>
        LET onDisk == audit[r].runJson.log IN
        /\ \A k \in DOMAIN rollback.diffs :
              \E d \in DOMAIN onDisk.diffs :
                  onDisk.diffs[d].file = rollback.diffs[k].file
        /\ onDisk.summary.filesChanged =
              Cardinality({rollback.diffs[k].file : k \in DOMAIN rollback.diffs})

\* C15 (as claimed): each file the Audit Logger has written holds the
\* redacted form of what it serializes.
C15_WritesAreRedacted ==
    \A r \in Runs :
        /\ audit[r].runJson.written =>
              audit[r].runJson.bytes
                  = redactSecrets(runLogWords(audit[r].runJson.log))
        /\ audit[r].diffsJson.written =>
              audit[r].diffsJson.bytes
                  = redactSecrets(diffWords(audit[r].diffsJson.log.diffs))

\* The tools the tool executor of step id routed to the registry, in order
Routed(r, id) ==
    SelectSeq(trace[r], LAMBDA e : /\ e.kind = "tool_executor"
                                   /\ e.step = id
                                   /\ e.info = "routed")

\* C17: the tool executor of a workflow-driven skill calls the registry
\* exactly for the names of the skill's declared allow-list; for any other
\* name it returns a failure, the registry is not called and the skill's
\* tool-call log is left alone.
C17_ExecutorKeepsAllowList ==
    \A r \in Runs :
        /\ \A e \in Events(r) :
              /\ trace[r][e].kind = "tool_executor" =>
                    LET declared == Skills[SkillOf(r, trace[r][e].step)].tools IN
                    /\ trace[r][e].info = "routed" <=> trace[r][e].tool \in declared
                    /\ trace[r][e].info = "refused" =>
                          (e + 1 \in Events(r) =>
                               trace[r][e + 1].kind \notin {"wf_dispatch", "wf_op"})
              /\ trace[r][e].kind = "wf_dispatch" =>
                    /\ e > 1
                    /\ trace[r][e - 1].kind = "tool_executor"
                    /\ trace[r][e - 1].info = "routed"
                    /\ trace[r][e - 1].tool = trace[r][e].tool
                    /\ trace[r][e].tool
                           \in Skills[SkillOf(r, trace[r][e].step)].tools
        /\ pc[r] \in {"workflow", "validators"} /\ ~PromptStep(r, CurStep(r).id) =>
              /\ Len(skill[r].toolCalls) = Len(Routed(r, CurStep(r).id))
              /\ \A k \in DOMAIN skill[r].toolCalls :
                    skill[r].toolCalls[k] = Routed(r, CurStep(r).id)[k].tool

\* C17 witness: the workflow asked for a registered tool the skill does not
\* declare, and was refused
C17_Witness ==
    \E r \in Runs :
        /\ pc[r] = "validators"
        /\ plan[r] = PlanWorkflow
        /\ skill[r].toolCalls = <<>>
        /\ \E e \in Events(r) :
              /\ trace[r][e].kind = "tool_executor"
              /\ trace[r][e].tool = CmdRun
              /\ trace[r][e].info = "refused"

\* C18 (as claimed): a registered tool that a workflow's tool executor
\* sends to the registry has every permission it requires allowed by the
\* rules or approved.
C18_WorkflowDispatchIsGated ==
    \A r \in Runs : \A e \in Events(r) :
        (trace[r][e].kind = "wf_dispatch" /\ has(CoreTools, trace[r][e].tool))
        => \A perm \in Range(CoreTools[trace[r][e].tool].permissions) :
               Cleared(r, trace[r][e].tool, perm)

\* The plan a run of the scheduler is a run of
FiredPlan(r) ==
    daemon.fired[CHOOSE k \in DOMAIN daemon.fired : daemon.fired[k].run = r].plan

Executing(r) == pc[r] \notin {"off", "idle", "done", "exited"}

\* C21 (as claimed): no two runs of the same plan are executing at the same
\* time in the scheduler.
C21_RunsSerializedPerPlan ==
    \A r1, r2 \in Runs :
        (r1 # r2 /\ Executing(r1) /\ Executing(r2))
        => FiredPlan(r1) # FiredPlan(r2)

\* C22 (as claimed): after SIGTERM every job is cancelled and every watcher
\* closed, and each run that was in flight has its current step failed, its
\* last event run_complete with status aborted and its audit log on disk
\* with that status.
C22_SigtermIsGraceful ==
    daemon.exited =>
        /\ daemon.cronJobs = {}
        /\ daemon.watchers = {}
        /\ \A r \in daemon.inFlight :
              /\ trace[r] # <<>>
              /\ trace[r][Len(trace[r])].kind = "run_complete"
              /\ trace[r][Len(trace[r])].info = "aborted"
              /\ audit[r].runJson.written
              /\ audit[r].runJson.log.status = "aborted"
              /\ idx[r] \in DOMAIN planRun[r].steps =>
                    planRun[r].steps[idx[r]].status = "failed"

\* C26 (as claimed): a skill that a run of the scheduler loads and runs is
\* in state approved.
C26_DaemonRunsApprovedSkillsOnly ==
    \A r \in Runs : \A e \in Events(r) :
        (daemon.fired # <<>> /\ trace[r][e].kind = "skill_loaded")
        => Skills[SkillOf(r, trace[r][e].step)].state = "approved"

\* C23 (as claimed): a change or add event on a watched file triggers the
\* plan exactly when the file's path matches one of the plan's path globs.
C23_MatchingChangeTriggers ==
    \A k \in DOMAIN daemon.events :
        daemon.events[k].onTrigger
            <=> watched(daemon.events[k].path, daemon.events[k].paths)

\* C24 (as claimed): in a finished run, a step whose dependencies all
\* completed was executed, wherever the plan file lists it, and no step
\* was executed before a step it depends on had completed.
C24_TopologicalOrder ==
    \A r \in Runs : Finished(r) =>
        \A i \in DOMAIN plan[r] :
            LET deps == {j \in DOMAIN plan[r] :
                            \E k \in DOMAIN plan[r][i].dependsOn :
                                plan[r][i].dependsOn[k] = plan[r][j].id}
            IN
            (/\ plan[r][i].dependsOn # <<>>
             /\ Len(plan[r][i].dependsOn) = Cardinality(deps)
             /\ \A j \in deps : planRun[r].steps[j].status = "completed")
            => /\ planRun[r].steps[i].status # "skipped"
               /\ \E e \in Events(r) :
                     /\ trace[r][e].kind = "executeStep"
                     /\ trace[r][e].step = plan[r][i].id

\* C25: transition accepts draft -> approved, approved -> deprecated and
\* deprecated -> approved (no state counts as draft) and then sets the state
\* in memory and in the manifest file; for every other pair it raises an
\* error and leaves the state in memory and the manifest file as they were.
C25_TransitionTable ==
    \A k \in DOMAIN lifecycle.calls :
        LET c == lifecycle.calls[k]
            current == IF c.from.state = "undefined" THEN "draft" ELSE c.from.state
            permitted == <<current, c.to>> \in {<<"draft", "approved">>,
                                                <<"approved", "deprecated">>,
                                                <<"deprecated", "approved">>}
        IN
        /\ ~permitted =>
              /\ c.result.raised
              /\ c.result.state = c.from.state
              /\ c.result.file = c.from.file
        /\ (permitted /\ c.from.file # "absent") =>
              /\ ~c.result.raised
              /\ c.result.state = c.to
              /\ c.result.file = c.to
        /\ k = Len(lifecycle.calls) =>
              lifecycle.skill = [state |-> c.result.state, file |-> c.result.file]

\* C25 witness: a skill without a state was approved, approving it again was
\* refused, and so was turning it back into a draft
C25_Witness ==
    /\ Len(lifecycle.calls) = 3
    /\ lifecycle.calls[1].from.state = "undefined"
    /\ lifecycle.calls[1].to = "approved"
    /\ ~lifecycle.calls[1].result.raised
    /\ lifecycle.calls[2].to = "approved"
    /\ lifecycle.calls[2].result.raised
    /\ lifecycle.calls[3].to = "draft"
    /\ lifecycle.calls[3].result.raised
    /\ lifecycle.skill.state = "approved"
    /\ lifecycle.skill.file = "approved"

\* C27: approve returns true exactly when the stored status is proposed and
\* then stores pending, otherwise it writes nothing; plan execute runs the
\* plan exactly when the stored status is pending; nothing of a run is
\* executed while its stored status is proposed.
C27_ExecutedOnlyAfterApproval ==
    /\ \A k \in DOMAIN proposals.calls :
          LET c == proposals.calls[k]
              after == IF \E j \in DOMAIN proposals.calls :
                             j > k /\ proposals.calls[j].run = c.run
                       THEN proposals.calls[
                                CHOOSE j \in DOMAIN proposals.calls :
                                    /\ j > k
                                    /\ proposals.calls[j].run = c.run
                                    /\ \A i \in (k + 1)..(j - 1) :
                                          proposals.calls[i].run # c.run].before
                       ELSE proposals.stored[c.run]
          IN
          /\ c.op = "approve" =>
                /\ c.returned <=> c.before = "proposed"
                /\ c.returned => after = "pending"
                /\ ~c.returned => after = c.before
          /\ c.op = "execute" =>
                /\ c.returned <=> c.before = "pending"
                /\ after = c.before
    /\ \A r \in Runs :
          proposals.stored[r] \in {"none", "proposed"} =>
              /\ trace[r] = <<>>
              /\ pc[r] = "idle"
              /\ ~audit[r].runJson.written

\* C27 witness: execute was refused while the proposal was proposed, then the
\* proposal was approved and executed, and its step was dispatched
C27_Witness ==
    \E r \in Runs :
        /\ proposals.stored[r] = "pending"
        /\ \E k \in DOMAIN proposals.calls :
              /\ proposals.calls[k].run = r
              /\ proposals.calls[k].op = "execute"
              /\ proposals.calls[k].before = "proposed"
              /\ ~proposals.calls[k].returned
        /\ \E e \in Events(r) : trace[r][e].kind = "dispatch"

\* The rules of the configuration on a permission, by position
RulesOn(permission) ==
    {i \in DOMAIN config.policy.rules :
        config.policy.rules[i].permission = permission}

FirstRuleOn(permission) ==
    config.policy.rules[CHOOSE i \in RulesOn(permission) :
                            \A j \in RulesOn(permission) : i <= j].action

\* C28: findRule gives the action of the first rule on the permission
\* itself; without one, and if the permission has a parent category, of the
\* first rule on the parent; otherwise the default approval.
C28_MostSpecificRule ==
    query.op = "findRule" =>
        LET p == query.permission IN
        query.result =
            IF RulesOn(p) # {} THEN FirstRuleOn(p)
            ELSE IF Len(p) > 1 /\ RulesOn(<<p[1]>>) # {}
            THEN FirstRuleOn(<<p[1]>>)
            ELSE config.policy.defaultApproval

\* C28 witness: filesystem.read has no rule of its own and took the action
\* of the rule on filesystem, which is not the default
C28_Witness ==
    /\ query.op = "findRule"
    /\ query.permission = PermFsRead
    /\ RulesOn(PermFsRead) = {}
    /\ RulesOn(PermFs) # {}
    /\ query.result = FirstRuleOn(PermFs)
    /\ query.result # config.policy.defaultApproval

\* The request could not be granted: no low-risk shortcut, and no prompter
\* or a prompter that said no
Ungranted ==
    /\ query.op = "requestApproval"
    /\ ~(query.ctx.autonomous /\ query.action.riskLevel = "low")
    /\ ~query.ctx.onApproval \/ ~query.reply

\* C29: such a request returns false and leaves the session approvals as
\* they were; the prompter's no is reported by approval_denied; a check of
\* the same action that needed approval before still needs it.
C29_RefusalChangesNothing ==
    Ungranted =>
        /\ ~query.result.approved
        /\ sessionApprovals = query.before
        /\ query.ctx.onApproval =>
              query.result.prompted /\ query.result.event = "approval_denied"
        /\ ~query.ctx.onApproval => ~query.result.prompted
        /\ query.checked = NeedsApproval =>
              checkPermission(config, sessionApprovals, query.action, query.ctx)
                  = NeedsApproval

\* C29 witness: a request without prompter, for an action that needs approval
C29_Witness ==
    /\ Ungranted
    /\ ~query.ctx.onApproval
    /\ query.checked = NeedsApproval
    /\ ~query.result.approved

\* C30 (as claimed): an autonomous request for a low-risk action returns
\* true without the prompter, caches the permissions and emits
\* approval_granted.
C30_AutonomousLowRiskGranted ==
    (/\ query.op = "requestApproval"
     /\ query.ctx.autonomous
     /\ query.action.riskLevel = "low")
    => /\ query.result.approved
       /\ ~query.result.prompted
       /\ \A k \in DOMAIN query.action.permissions :
             <<query.action.tool, query.action.permissions[k]>> \in sessionApprovals
       /\ query.result.event = "approval_granted"


\* C31 (as claimed): when two steps wrote the same file one after the other,
\* each after its captureBeforeState, rollbackAll leaves the file as it was
\* before the earlier step and returns the path it restored.
C31_RollbackAllRestoresEarliest ==
    (/\ TrackerDid(<<"capture_before", "mutate", "capture_before", "mutate",
                    "rollback_all">>)
     /\ rollback.log[1].stepId # rollback.log[3].stepId)
    => /\ files[HelloPath] = rollback.log[1].actual
       /\ \E i \in DOMAIN allRestored(rollback) :
              allRestored(rollback)[i] = HelloPath


\* C32 (as claimed): when a step that writes a file is executed and then
\* executed again by the retry loop (captureBeforeState, the tool's write,
\* captureAfterState, twice over), the tracker holds one pre-snapshot and at
\* most one diff for that step and file, and the diff goes from the content
\* before the step to the content after it.
C32_OneDiffPerStepAndFile ==
    (/\ TrackerDid(<<"capture_before", "mutate", "capture_after",
                    "capture_before", "mutate", "capture_after">>)
     /\ \A k \in {3, 4, 6} : rollback.log[k].stepId = rollback.log[1].stepId)
    => /\ Len(mapGet(rollback.beforeStates, rollback.log[1].stepId)) = 1
       /\ Len(rollback.diffs) <= 1
       /\ \A d \in DOMAIN rollback.diffs :
             /\ rollback.diffs[d].before = AsRead(rollback.log[1].actual)
             /\ rollback.diffs[d].after = readOrEmpty(files, HelloPath)


\* The number of steps of run r's PlanRun that have this status
StepsWith(r, status) ==
    Cardinality({i \in DOMAIN planRun[r].steps :
                    planRun[r].steps[i].status = status})

\* C33 (as claimed): when a run is over, the summary in its run log on disk
\* counts as completed, failed and skipped the steps that have those
\* statuses in the PlanRun the runner returns.
C33_SummaryCountsFinalStatuses ==
    \A r \in Runs : Finished(r) =>
        LET summary == audit[r].runJson.log.summary IN
        /\ summary.stepsCompleted = StepsWith(r, "completed")
        /\ summary.stepsFailed = StepsWith(r, "failed")
        /\ summary.stepsSkipped = StepsWith(r, "skipped")


\* The events run r emitted, in order
EmittedBy(r) == SelectSeq(bus.emitted, LAMBDA e : e.by = r)

\* C34 (as claimed): the event list of a run's Audit Logger holds exactly
\* the events that run emitted, and none of another run.
C34_LoggerHoldsOwnEvents ==
    \A r \in Runs : audit[r].runLog.events = EmittedBy(r)


\* The terminal events of step id in run r
Terminals(r, id) ==
    EventsOf(r, "step_complete", id) \cup EventsOf(r, "step_failed", id)

\* C35 (as claimed): in a finished run the first event is run_start and the
\* last is the only run_complete; each step that ended completed or failed
\* has one step_start, followed by one terminal event, step_complete if the
\* step ended completed and step_failed if it ended failed; and every event
\* of a step comes before every event of a later step.
C35_EventsOrderedPerStep ==
    \A r \in Runs : Finished(r) =>
        /\ trace[r][1].kind = "run_start"
        /\ {e \in Events(r) : trace[r][e].kind = "run_complete"} = {Len(trace[r])}
        /\ \A i \in DOMAIN plan[r] :
              LET id == plan[r][i].id
                  status == planRun[r].steps[i].status
              IN
              /\ status \in {"completed", "failed"} =>
                    /\ Cardinality(EventsOf(r, "step_start", id)) = 1
                    /\ Cardinality(Terminals(r, id)) = 1
                    /\ \A s \in EventsOf(r, "step_start", id) :
                          \A t \in Terminals(r, id) :
                              /\ s < t
                              /\ trace[r][t].kind =
                                    (IF status = "completed"
                                     THEN "step_complete" ELSE "step_failed")
              /\ \A j \in DOMAIN plan[r] : \A e, f \in Events(r) :
                    (/\ i < j
                     /\ trace[r][e].step = id
                     /\ trace[r][f].step = plan[r][j].id) => e < f


\* The calls of executeStep in run r, and its returns
StepCalls(r) == {e \in Events(r) : trace[r][e].kind = "executeStep"}
StepReturns(r) == {e \in Events(r) : trace[r][e].kind = "return"}

\* The returns of the call at c: those before the next call
ResultsOf(r, c) ==
    {t \in StepReturns(r) :
        t > c /\ \A d \in StepCalls(r) : ~(c < d /\ d < t)}

\* C36: every call of executeStep returns one result, for the step it was
\* called on; when the tool's operation threw, or did not finish before the
\* deadline, the result of registry.execute that executeStep passes on has
\* success = false and an error.
C36_FailuresAreResults ==
    \A r \in Runs :
        /\ \A c \in StepCalls(r) :
              /\ Cardinality(ResultsOf(r, c)) <= 1
              /\ (Finished(r) \/ \E d \in StepCalls(r) : d > c) =>
                    Cardinality(ResultsOf(r, c)) = 1
              /\ \A t \in ResultsOf(r, c) : trace[r][t].step = trace[r][c].step
        /\ \A t \in StepReturns(r) : \E c \in StepCalls(r) : t \in ResultsOf(r, c)
        /\ (/\ pc[r] = "returned"
            /\ "outcome" \in DOMAIN result[r]
            /\ result[r].outcome \in {"throw", "timeout"}) =>
               /\ ~result[r].success
               /\ result[r].error \in {"exception", "timeout"}
               /\ trace[r][Len(trace[r])].info = "failed"

\* C36 witness: a retried tool step whose operation ran into the deadline
\* on the retry, after two results were returned
C36_Witness ==
    \E r \in Runs :
        /\ pc[r] = "returned"
        /\ "outcome" \in DOMAIN result[r]
        /\ result[r].outcome = "timeout"
        /\ result[r].error = "timeout"
        /\ Cardinality(StepReturns(r)) = 2


\* The exit code a clause expects: its exitCode when it states one, else 0
ExpectedExit(verifyConfig) ==
    IF verifyConfig.exitCode = <<>> THEN 0 ELSE verifyConfig.exitCode[1]

\* C37 (as claimed): verify passes exactly when every check of the clause
\* passes: the command exited with the expected code and, if contains is
\* given, its output includes the substring; and the file of fileExists is
\* there.
C37_VerifyChecksExitCode ==
    query.op = "verify" =>
        (query.result.passed <=>
            /\ query.verifyConfig.command =>
                  /\ query.ran.exit = ExpectedExit(query.verifyConfig)
                  /\ query.verifyConfig.contains => query.ran.outputIncludes
            /\ query.verifyConfig.fileExists => query.ran.fileThere)


\* The path, resolved against the project root, is the root or below it
StaysInside(filePath) ==
    LET absPath == resolve(ProjectRoot, filePath) IN
    /\ Len(absPath) >= Len(ProjectRoot)
    /\ SubSeq(absPath, 1, Len(ProjectRoot)) = ProjectRoot

\* C38 (as claimed): checkFilesystemScope says in scope exactly for a path
\* that stays inside the project root and whose root-relative form matches
\* a pattern of the allow-list.
C38_InScopeIffInsideAndListed ==
    query.op = "checkFilesystemScope" =>
        (query.result <=>
            /\ StaysInside(query.filePath)
            /\ \E i \in DOMAIN query.allowlist :
                  matchGlob(relative(ProjectRoot,
                                     resolve(ProjectRoot, query.filePath)),
                            query.allowlist[i]))


\* The assistant messages of run r's prompt-driven skill, as indices
Assistants(r) ==
    {m \in DOMAIN skill[r].messages : skill[r].messages[m].role = "assistant"}

\* How many tool calls of the assistant message at m the loop has been
\* through: all of them, except for the response it is working on
Handled(r, m) ==
    IF m = CHOOSE last \in Assistants(r) : \A o \in Assistants(r) : o <= last
    THEN Len(skill[r].messages[m].toolCalls) - Len(skill[r].pending)
    ELSE Len(skill[r].messages[m].toolCalls)

\* The tools dispatched to the registry since the run entered the skill
DispatchedInSkill(r) ==
    LET entered == CHOOSE e \in Events(r) :
                      /\ trace[r][e].kind = "executeStep"
                      /\ \A o \in Events(r) :
                            trace[r][o].kind = "executeStep" => o <= e
        since == SubSeq(trace[r], entered, Len(trace[r]))
        calls == SelectSeq(since, LAMBDA e : e.kind = "dispatch")
    IN [k \in DOMAIN calls |-> calls[k].tool]

\* C39: in the tool-calling loop of a prompt-driven skill, every tool call
\* of a response the loop has been through is answered by exactly one
\* tool-role message carrying the call's id, in the order of the calls and
\* right after the assistant message, whether the call was dispatched,
\* denied, refused or named an unknown tool; and the tool-call log holds
\* exactly the calls dispatched to the registry, in order.
C39_OneToolMessagePerCall ==
    \A r \in Runs :
        InLoop(r) =>
            LET messages == skill[r].messages IN
            /\ \A m \in Assistants(r) :
                  \A k \in 1..Handled(r, m) :
                      /\ m + k <= Len(messages)
                      /\ messages[m + k].role = "tool"
                      /\ messages[m + k].toolCallId = messages[m].toolCalls[k]
            /\ \A n \in DOMAIN messages :
                  messages[n].role = "tool" =>
                      \E m \in Assistants(r) :
                          /\ m < n
                          /\ n - m <= Handled(r, m)
            /\ skill[r].toolCalls = DispatchedInSkill(r)

\* A response with two calls is behind: the first was answered with an
\* error and never dispatched, the second was dispatched
C39_Witness ==
    \E r \in Runs :
        /\ pc[r] = "chat"
        /\ skill[r].name = "triage"
        /\ Len(skill[r].messages) = 5
        /\ skill[r].messages[3].role = "assistant"
        /\ Len(skill[r].messages[3].toolCalls) = 2
        /\ Len(skill[r].toolCalls) = 1

\* The times the plan of run id r was started
Started(r) == {e \in Events(r) : trace[r][e].kind = "run_start"}

\* C40: an approved proposal is executed at most once: once 'plan execute'
\* has run the plan of a run id, a later 'plan execute' of the same run id
\* exits without running the plan again.
C40_ExecutedAtMostOnce ==
    \A r \in Runs :
        /\ Cardinality(Started(r)) <= 1
        /\ \A k \in DOMAIN proposals.calls :
              LET c == proposals.calls[k] IN
              (c.op = "execute" /\ c.run = r /\ c.returned) =>
                  \A j \in DOMAIN proposals.calls :
                      (j > k /\ proposals.calls[j].op = "execute"
                             /\ proposals.calls[j].run = r) =>
                          ~proposals.calls[j].returned

====
